---- MODULE Spec2Model ----
(***************************************************************************)
(* NutraVue: the scoring and warning rules engines (health score, daily    *)
(* values, diabetic warnings, population safety) and the product lookup     *)
(* with its in-memory cache.                                                *)
(*                                                                          *)
(* Number representation.  The engines compute on JavaScript doubles; the   *)
(* model computes on integers in fixed units so that every rate of the      *)
(* source is exact:                                                         *)
(*   calories                  kcal            (1 unit = 1 kcal)            *)
(*   sugar, fat, protein,                                                   *)
(*   fiber, carbs, sat. fat    tenths of g     (1 unit = 0.1 g)             *)
(*   salt                      hundredths of g (1 unit = 0.01 g)            *)
(*   caffeine                  mg                                           *)
(*   score, penalty, bonus     thousandths of a point                       *)
(* A JavaScript value that may be undefined is a sequence: << >> is         *)
(* undefined, <<v>> is the value v.                                         *)
(***************************************************************************)
EXTENDS Integers, Sequences, FiniteSets, TLC

VARIABLES
    fn,        \* the engine function that is called
    args,      \* the arguments of the call
    result,    \* Pending before the call ran, then [threw, error, value]
    apiCache,  \* api-integration.js apiCache: barcode -> << >> or <<entry>>
    now,       \* Date.now(), in cache-clock ticks
    call,      \* the fetchProductWithHealthScore call in progress
    state      \* app.js state: scanHistory, currentProduct, scans in flight

vars == <<fn, args, result, apiCache, now, call, state>>

----------------------------------------------------------------------------
(* JavaScript helpers *)

Undefined == << >>

Num(v) == <<v>>

\* x || 0 for a numeric or undefined x
OrZero(x) == IF x = Undefined THEN 0 ELSE x[1]

\* Math.max / Math.min
Max(a, b) == IF a >= b THEN a ELSE b

Min(a, b) == IF a <= b THEN a ELSE b

\* Math.round on a value held in thousandths: floor(x + 0.5)
Round(milli) == (milli + 500) \div 1000

\* the value a call returns, and the exception a call raises
Returned(v) == [threw |-> FALSE, error |-> "", value |-> v]

Threw(e) == [threw |-> TRUE, error |-> e, value |-> << >>]

\* the call has not run yet
Pending == [threw |-> FALSE, error |-> "pending", value |-> << >>]

\* Array.prototype.sort(compare) is stable and orders by a numeric key:
\* keys[i] is the key of s[i], smaller keys first, equal keys in input order.
\* PlaceIdx: index i put behind every index whose key is <= keys[i].
RECURSIVE PlaceIdx(_, _, _)
PlaceIdx(order, i, keys) ==
    IF order = << >> THEN <<i>>
    ELSE IF keys[Head(order)] <= keys[i]
         THEN <<Head(order)>> \o PlaceIdx(Tail(order), i, keys)
         ELSE <<i>> \o order

RECURSIVE SortedOrder(_, _)
SortedOrder(k, keys) ==
    IF k = 0 THEN << >> ELSE PlaceIdx(SortedOrder(k - 1, keys), k, keys)

\* a sort by the key that puts entries of equal key in reverse input order
StableSort_tiesReversed(s, keys) ==
    LET n == Len(s)
        order == SortedOrder(n, [j \in 1..n |-> keys[n + 1 - j]])
    IN  [j \in 1..n |-> s[n + 1 - order[j]]]

StableSort(s, keys) ==
    LET order == SortedOrder(Len(s), keys)
    IN  [j \in 1..Len(s) |-> s[order[j]]]

----------------------------------------------------------------------------
(* Health score engine *)

\* n = { calories: Math.max(0, nutrition.calories || 0), ... }
Normalize(nutrition) ==
    [calories |-> Max(0, OrZero(nutrition.calories)),
     sugar    |-> Max(0, OrZero(nutrition.sugar)),
     fat      |-> Max(0, OrZero(nutrition.fat)),
     salt     |-> Max(0, OrZero(nutrition.salt)),
     protein  |-> Max(0, OrZero(nutrition.protein)),
     fiber    |-> Max(0, OrZero(nutrition.fiber))]

\* 1. calorie penalty, thousandths of a point (calories in kcal)
CaloriePenalty(calories) ==
    LET calorieExcess == calories - 200
        raw == IF calorieExcess <= 100 THEN calorieExcess * 50
               ELSE IF calorieExcess <= 200 THEN 5000 + (calorieExcess - 100) * 80
               ELSE 13000 + (calorieExcess - 200) * 60
    IN  Min(25000, raw)

\* the diabetic multiplier applied after the cap instead of before it
SugarPenalty_capFirst(sugar, isDiabetic) ==
    LET sugarExcess == sugar - 50
        raw == IF sugarExcess <= 50 THEN sugarExcess * 150
               ELSE IF sugarExcess <= 150 THEN 7500 + (sugarExcess - 50) * 100
               ELSE 17500 + (sugarExcess - 150) * 80
        capped == Min(30000, raw)
    IN  IF isDiabetic THEN (capped * 3) \div 2 ELSE capped

\* 2. sugar penalty (sugar in tenths of g): 1.5 / 1.0 / 0.8 points per g
SugarPenalty(sugar, isDiabetic) ==
    LET sugarExcess == sugar - 50
        raw == IF sugarExcess <= 50 THEN sugarExcess * 150
               ELSE IF sugarExcess <= 150 THEN 7500 + (sugarExcess - 50) * 100
               ELSE 17500 + (sugarExcess - 150) * 80
        diabetic == IF isDiabetic THEN (raw * 3) \div 2 ELSE raw
    IN  Min(30000, diabetic)

\* a fat penalty whose third piece starts at 1 point instead of 11
FatPenalty_dropping(fat) ==
    LET fatExcess == fat - 100
        raw == IF fatExcess <= 100 THEN fatExcess * 50
               ELSE IF fatExcess <= 200 THEN 5000 + (fatExcess - 100) * 60
               ELSE 1000 + (fatExcess - 200) * 45
    IN  Min(20000, raw)

\* 3. fat penalty (fat in tenths of g): 0.5 / 0.6 / 0.45 points per g
FatPenalty(fat) ==
    LET fatExcess == fat - 100
        raw == IF fatExcess <= 100 THEN fatExcess * 50
               ELSE IF fatExcess <= 200 THEN 5000 + (fatExcess - 100) * 60
               ELSE 11000 + (fatExcess - 200) * 45
    IN  Min(20000, raw)

\* 4. salt penalty (salt in hundredths of g): 8 / 6 / 3.3 points per g
SaltPenalty(salt) ==
    LET saltExcess == salt - 30
        raw == IF saltExcess <= 50 THEN saltExcess * 80
               ELSE IF saltExcess <= 150 THEN 4000 + (saltExcess - 50) * 60
               ELSE 10000 + (saltExcess - 150) * 33
    IN  Min(15000, raw)

\* the calorie rule applied from 200 kcal on instead of above 200 kcal
Penalties_inclusive(n, isDiabetic) ==
    (IF n.calories >= 200
       THEN <<[type |-> "calories", penalty |-> CaloriePenalty(n.calories)]>>
       ELSE << >>)
    \o (IF n.sugar > 50
       THEN <<[type |-> "sugar", penalty |-> SugarPenalty(n.sugar, isDiabetic)]>>
       ELSE << >>)
    \o (IF n.fat > 100
       THEN <<[type |-> "fat", penalty |-> FatPenalty(n.fat)]>>
       ELSE << >>)
    \o (IF n.salt > 30
       THEN <<[type |-> "salt", penalty |-> SaltPenalty(n.salt)]>>
       ELSE << >>)
    \o (IF n.sugar > 100 /\ n.fat > 200
       THEN <<[type |-> "combination", penalty |-> 5000]>>
       ELSE << >>)
    \o (IF n.calories > 400 /\ n.sugar > 150
       THEN <<[type |-> "metabolic", penalty |-> 5000]>>
       ELSE << >>)

\* the penalties list in the order in which the rules push their entries
Penalties(n, isDiabetic) ==
    (IF n.calories > 200
       THEN <<[type |-> "calories", penalty |-> CaloriePenalty(n.calories)]>>
       ELSE << >>)
    \o (IF n.sugar > 50
       THEN <<[type |-> "sugar", penalty |-> SugarPenalty(n.sugar, isDiabetic)]>>
       ELSE << >>)
    \o (IF n.fat > 100
       THEN <<[type |-> "fat", penalty |-> FatPenalty(n.fat)]>>
       ELSE << >>)
    \o (IF n.salt > 30
       THEN <<[type |-> "salt", penalty |-> SaltPenalty(n.salt)]>>
       ELSE << >>)
    \o (IF n.sugar > 100 /\ n.fat > 200
       THEN <<[type |-> "combination", penalty |-> 5000]>>
       ELSE << >>)
    \o (IF n.calories > 400 /\ n.sugar > 150
       THEN <<[type |-> "metabolic", penalty |-> 5000]>>
       ELSE << >>)

ProteinBonus(protein) ==
    IF protein >= 200 THEN 10000
    ELSE IF protein >= 150 THEN 8000
    ELSE IF protein >= 100 THEN 5000
    ELSE 3000

FiberBonus(fiber) ==
    IF fiber >= 150 THEN 10000
    ELSE IF fiber >= 100 THEN 8000
    ELSE IF fiber >= 70 THEN 5000
    ELSE 3000

\* the rewards list in the order in which the rules push their entries
Rewards(n) ==
    (IF n.protein >= 80
       THEN <<[type |-> "protein", bonus |-> ProteinBonus(n.protein)]>>
       ELSE << >>)
    \o (IF n.fiber >= 50
       THEN <<[type |-> "fiber", bonus |-> FiberBonus(n.fiber)]>>
       ELSE << >>)
    \o (IF n.calories < 100 /\ n.protein >= 50
       THEN <<[type |-> "lowcal", bonus |-> 5000]>>
       ELSE << >>)
    \o (IF n.sugar < 50 /\ n.fat < 100 /\ n.salt < 50
          /\ n.protein >= 100 /\ n.fiber >= 50
       THEN <<[type |-> "optimal", bonus |-> 5000]>>
       ELSE << >>)

\* penalties.reduce((sum, p) => sum + p.penalty, 0)
RECURSIVE TotalPenalties(_)
TotalPenalties(ps) ==
    IF ps = << >> THEN 0 ELSE Head(ps).penalty + TotalPenalties(Tail(ps))

\* rewards.reduce((sum, r) => sum + r.bonus, 0)
RECURSIVE TotalRewards(_)
TotalRewards(rs) ==
    IF rs = << >> THEN 0 ELSE Head(rs).bonus + TotalRewards(Tail(rs))

\* the rounding without the clamp
ClampScore_unclamped(milli) == Round(milli)

\* score = Math.max(0, Math.min(100, Math.round(score)))
ClampScore(milli) == Max(0, Min(100, Round(milli)))

\* the grade ladder with an exclusive bound for A+
GradeOf_exclusive(score) ==
    IF score > 90 THEN "A+"
    ELSE IF score >= 80 THEN "A"
    ELSE IF score >= 70 THEN "B"
    ELSE IF score >= 60 THEN "C"
    ELSE IF score >= 50 THEN "D"
    ELSE "F"

\* the grade ladder
GradeOf(score) ==
    IF score >= 90 THEN "A+"
    ELSE IF score >= 80 THEN "A"
    ELSE IF score >= 70 THEN "B"
    ELSE IF score >= 60 THEN "C"
    ELSE IF score >= 50 THEN "D"
    ELSE "F"

\* generateRecommendation: the text it returns, held as the band it was
\* templated from and the penalty types it cites
generateRecommendation(score, penalties, isDiabetic) ==
    IF score >= 85 THEN [band |-> "excellent", issues |-> << >>, diabetic |-> FALSE]
    ELSE IF score >= 70 THEN [band |-> "good", issues |-> << >>, diabetic |-> FALSE]
    ELSE IF score >= 55 THEN
        LET sorted == StableSort(penalties, [i \in 1..Len(penalties) |-> 0 - penalties[i].penalty])
            top == SubSeq(sorted, 1, Min(2, Len(sorted)))
        IN  [band |-> "fair", issues |-> [i \in 1..Len(top) |-> top[i].type],
             diabetic |-> FALSE]
    ELSE
        LET critical == SelectSeq(penalties, LAMBDA p : p.penalty > 10000)
        IN  [band |-> "poor", issues |-> [i \in 1..Len(critical) |-> critical[i].type],
             diabetic |-> isDiabetic]

\* penalties.sort(...) inside generateRecommendation sorts the caller's array
\* in place: the penalties array as generateRecommendation leaves it
PenaltiesAfterRecommendation(score, penalties) ==
    IF score < 70 /\ score >= 55
    THEN StableSort(penalties, [i \in 1..Len(penalties) |-> 0 - penalties[i].penalty])
    ELSE penalties

\* generateDiabeticWarning: which of its four texts, or "null"
generateDiabeticWarning(n, isDiabetic) ==
    IF ~isDiabetic THEN "null"
    ELSE IF n.sugar > 150 THEN "CRITICAL"
    ELSE IF n.sugar > 100 THEN "WARNING"
    ELSE IF n.sugar > 50 THEN "CAUTION"
    ELSE IF n.sugar < 30 /\ n.calories < 200 THEN "SAFE"
    ELSE "null"

\* an argument that is an object, null, undefined (left out) or a primitive
IsNullish(arg) == arg.type \in {"null", "undefined"}

\* the properties read from a non-nullish argument: a primitive has none
NoNutrients ==
    [calories |-> Undefined, sugar |-> Undefined, fat |-> Undefined,
     saturatedFat |-> Undefined, salt |-> Undefined, protein |-> Undefined,
     fiber |-> Undefined, carbs |-> Undefined, caffeine |-> Undefined,
     iron |-> Undefined, calcium |-> Undefined]

PropsOf(arg) == IF arg.type = "object" THEN arg.rec ELSE NoNutrients

\* options = {} when the argument is left out
NoOptions ==
    [gender |-> Undefined, isDiabetic |-> Undefined, diabeticType |-> Undefined,
     activityLevel |-> Undefined, profile |-> Undefined]

OptionsOf(options) == IF options = Undefined THEN NoOptions ELSE options[1]

\* x || false
OrFalse(x) == IF x = Undefined THEN FALSE ELSE x[1]

\* x || 'default' for a string x
OrString(x, default) == IF x = Undefined \/ x[1] = "" THEN default ELSE x[1]

\* the engine taking 5 points off for a sedentary user
calculateHealthScore_activityAware(nutrition, options) ==
    IF IsNullish(nutrition) THEN Threw("TypeError")
    ELSE
    LET n == Normalize(PropsOf(nutrition))
        isDiabetic == OrFalse(OptionsOf(options).isDiabetic)
        penalties == Penalties(n, isDiabetic)
        rewards == Rewards(n)
        activityLevel == OrString(OptionsOf(options).activityLevel, "moderate")
        raw == 100000 - TotalPenalties(penalties) + TotalRewards(rewards)
                 - (IF activityLevel = "sedentary" THEN 5000 ELSE 0)
        score == ClampScore(raw)
    IN  Returned(
          [score |-> score,
           grade |-> GradeOf(score),
           recommendation |-> generateRecommendation(score, penalties, isDiabetic),
           diabeticWarning |-> generateDiabeticWarning(n, isDiabetic),
           penalties |-> PenaltiesAfterRecommendation(score, penalties),
           rewards |-> rewards,
           nutritionProfile |-> n,
           metadata |-> [totalPenalties |-> TotalPenalties(penalties),
                         totalRewards |-> TotalRewards(rewards)]])

\* calculateHealthScore(nutrition, options = {}); gender and activityLevel
\* are read from the options (lines 26, 28) and not used afterwards
calculateHealthScore(nutrition, options) ==
    IF IsNullish(nutrition) THEN Threw("TypeError")
    ELSE
    LET n == Normalize(PropsOf(nutrition))
        isDiabetic == OrFalse(OptionsOf(options).isDiabetic)
        penalties == Penalties(n, isDiabetic)
        rewards == Rewards(n)
        raw == 100000 - TotalPenalties(penalties) + TotalRewards(rewards)
        score == ClampScore(raw)
    IN  Returned(
          [score |-> score,
           grade |-> GradeOf(score),
           recommendation |-> generateRecommendation(score, penalties, isDiabetic),
           diabeticWarning |-> generateDiabeticWarning(n, isDiabetic),
           penalties |-> PenaltiesAfterRecommendation(score, penalties),
           rewards |-> rewards,
           nutritionProfile |-> n,
           metadata |-> [totalPenalties |-> TotalPenalties(penalties),
                         totalRewards |-> TotalRewards(rewards)]])

----------------------------------------------------------------------------
(* Diabetic warning engine *)

\* DIABETIC_SEVERITY: level and priority of each severity
DIABETIC_SEVERITY ==
    [CRITICAL |-> [level |-> "critical", priority |-> 1],
     HIGH     |-> [level |-> "high",     priority |-> 2],
     MODERATE |-> [level |-> "moderate", priority |-> 3],
     LOW      |-> [level |-> "low",      priority |-> 4],
     SAFE     |-> [level |-> "safe",     priority |-> 5]]

\* { ...DIABETIC_SEVERITY.X, type: t }
Warning(severity, type) ==
    [level |-> severity.level, priority |-> severity.priority, type |-> type]

\* the n of generateDiabeticWarnings: x || 0, carbs estimated from sugar
DiabeticNutrients(nutrition) ==
    [sugar    |-> OrZero(nutrition.sugar),
     calories |-> OrZero(nutrition.calories),
     fat      |-> OrZero(nutrition.fat),
     salt     |-> OrZero(nutrition.salt),
     protein  |-> OrZero(nutrition.protein),
     fiber    |-> OrZero(nutrition.fiber),
     carbs    |-> IF OrZero(nutrition.carbs) # 0 THEN OrZero(nutrition.carbs)
                  ELSE OrZero(nutrition.sugar)]

\* the Safe entry for every sugar value up to 5 g
SugarWarnings_gapless(n) ==
    IF n.sugar > 200 THEN <<Warning(DIABETIC_SEVERITY.CRITICAL, "sugar_critical")>>
    ELSE IF n.sugar > 150 THEN <<Warning(DIABETIC_SEVERITY.HIGH, "sugar_high")>>
    ELSE IF n.sugar > 100 THEN <<Warning(DIABETIC_SEVERITY.MODERATE, "sugar_moderate")>>
    ELSE IF n.sugar > 50 THEN <<Warning(DIABETIC_SEVERITY.LOW, "sugar_low")>>
    ELSE <<Warning(DIABETIC_SEVERITY.SAFE, "sugar_safe")>>

\* the sugar band entry
SugarWarnings(n) ==
    IF n.sugar > 200 THEN <<Warning(DIABETIC_SEVERITY.CRITICAL, "sugar_critical")>>
    ELSE IF n.sugar > 150 THEN <<Warning(DIABETIC_SEVERITY.HIGH, "sugar_high")>>
    ELSE IF n.sugar > 100 THEN <<Warning(DIABETIC_SEVERITY.MODERATE, "sugar_moderate")>>
    ELSE IF n.sugar > 50 THEN <<Warning(DIABETIC_SEVERITY.LOW, "sugar_low")>>
    ELSE IF n.sugar <= 30 THEN <<Warning(DIABETIC_SEVERITY.SAFE, "sugar_safe")>>
    ELSE << >>

\* the warnings array with the fiber entry whatever the sugar
CollectedWarnings_fiberAlways(n, diabeticType) ==
    SugarWarnings(n)
    \o (IF n.carbs > 500
        THEN <<Warning(DIABETIC_SEVERITY.HIGH, "carb_high")>> ELSE << >>)
    \o (IF n.fat > 200 /\ n.sugar > 100
        THEN <<Warning(DIABETIC_SEVERITY.CRITICAL, "combination_danger")>> ELSE << >>)
    \o (IF n.calories > 500
        THEN <<Warning(DIABETIC_SEVERITY.MODERATE, "calorie_high")>> ELSE << >>)
    \o (IF n.salt > 150
        THEN <<Warning(DIABETIC_SEVERITY.MODERATE, "salt_high")>> ELSE << >>)
    \o (IF n.fiber >= 80
        THEN <<Warning(DIABETIC_SEVERITY.SAFE, "fiber_good")>> ELSE << >>)
    \o (IF n.protein >= 150 /\ n.sugar < 50
        THEN <<Warning(DIABETIC_SEVERITY.SAFE, "protein_good")>> ELSE << >>)
    \o (IF n.sugar < 30 /\ n.calories < 200 /\ n.fiber >= 50
        THEN <<Warning(DIABETIC_SEVERITY.SAFE, "ideal_diabetic")>> ELSE << >>)
    \o (IF diabeticType = "type1" /\ n.sugar > 100
        THEN <<Warning(DIABETIC_SEVERITY.HIGH, "type1_specific")>> ELSE << >>)

\* the warnings array as pushed, before the sort
CollectedWarnings(n, diabeticType) ==
    SugarWarnings(n)
    \o (IF n.carbs > 500
        THEN <<Warning(DIABETIC_SEVERITY.HIGH, "carb_high")>> ELSE << >>)
    \o (IF n.fat > 200 /\ n.sugar > 100
        THEN <<Warning(DIABETIC_SEVERITY.CRITICAL, "combination_danger")>> ELSE << >>)
    \o (IF n.calories > 500
        THEN <<Warning(DIABETIC_SEVERITY.MODERATE, "calorie_high")>> ELSE << >>)
    \o (IF n.salt > 150
        THEN <<Warning(DIABETIC_SEVERITY.MODERATE, "salt_high")>> ELSE << >>)
    \o (IF n.fiber >= 80 /\ n.sugar < 50
        THEN <<Warning(DIABETIC_SEVERITY.SAFE, "fiber_good")>> ELSE << >>)
    \o (IF n.protein >= 150 /\ n.sugar < 50
        THEN <<Warning(DIABETIC_SEVERITY.SAFE, "protein_good")>> ELSE << >>)
    \o (IF n.sugar < 30 /\ n.calories < 200 /\ n.fiber >= 50
        THEN <<Warning(DIABETIC_SEVERITY.SAFE, "ideal_diabetic")>> ELSE << >>)
    \o (IF diabeticType = "type1" /\ n.sugar > 100
        THEN <<Warning(DIABETIC_SEVERITY.HIGH, "type1_specific")>> ELSE << >>)

\* the array returned as collected, without the sort
SortByPriority_unsorted(warnings) == warnings

\* warnings.sort((a, b) => a.priority - b.priority)
SortByPriority(warnings) ==
    StableSort(warnings, [i \in 1..Len(warnings) |-> warnings[i].priority])

\* the engine without the early return for non-diabetic users
generateDiabeticWarnings_unguarded(nutrition, options) ==
    LET diabeticType == IF OptionsOf(options).diabeticType = Undefined THEN "type2"
                        ELSE OptionsOf(options).diabeticType[1]
    IN  IF IsNullish(nutrition) THEN Threw("TypeError")
        ELSE Returned(SortByPriority(
                 CollectedWarnings(DiabeticNutrients(PropsOf(nutrition)), diabeticType)))

\* const { isDiabetic = false, diabeticType = 'type2' } = options
generateDiabeticWarnings(nutrition, options) ==
    LET isDiabetic == OrFalse(OptionsOf(options).isDiabetic)
        diabeticType == IF OptionsOf(options).diabeticType = Undefined THEN "type2"
                        ELSE OptionsOf(options).diabeticType[1]
    IN  IF ~isDiabetic THEN Returned(<< >>)
        ELSE IF IsNullish(nutrition) THEN Threw("TypeError")
        ELSE Returned(SortByPriority(
                 CollectedWarnings(DiabeticNutrients(PropsOf(nutrition)), diabeticType)))

----------------------------------------------------------------------------
(* Daily value engine *)

Nutrients == <<"calories", "sugar", "fat", "salt", "protein", "fiber">>

\* model units per source unit of a nutrient (kcal; g in tenths; salt g in hundredths)
UnitsPer(nutrient) ==
    IF nutrient = "calories" THEN 1 ELSE IF nutrient = "salt" THEN 100 ELSE 10

\* DAILY_VALUES, in source units (kcal, g)
DAILY_VALUES ==
    [male     |-> [calories |-> 2500, sugar |-> 36, fat |-> 78, salt |-> 6,
                   protein |-> 56, fiber |-> 38],
     female   |-> [calories |-> 2000, sugar |-> 25, fat |-> 70, salt |-> 6,
                   protein |-> 46, fiber |-> 25],
     pregnant |-> [calories |-> 2200, sugar |-> 25, fat |-> 73, salt |-> 6,
                   protein |-> 71, fiber |-> 28],
     athlete  |-> [male   |-> [calories |-> 3500, sugar |-> 50, fat |-> 117,
                               salt |-> 8, protein |-> 140, fiber |-> 45],
                   female |-> [calories |-> 2800, sugar |-> 40, fat |-> 93,
                               salt |-> 7, protein |-> 112, fiber |-> 35]]]

\* dvReference: the table the profile and gender select.  DAILY_VALUES[gender]
\* is looked up by the gender string itself, so 'pregnant' and 'athlete' given
\* as a gender select those entries; any other string falls back to male.
DvReference(gender, profile) ==
    IF profile = "athlete"
    THEN (IF gender \in {"male", "female"} THEN DAILY_VALUES.athlete[gender]
          ELSE DAILY_VALUES.athlete.male)
    ELSE IF profile = "pregnant" THEN DAILY_VALUES.pregnant
    ELSE IF gender \in {"male", "female", "pregnant", "athlete"}
         THEN DAILY_VALUES[gender]
    ELSE DAILY_VALUES.male

\* targetDV = dvReference[nutrient] || 100, in source units
TargetDV(gender, profile, nutrient) ==
    LET ref == DvReference(gender, profile)
    IN  IF nutrient \in DOMAIN ref THEN ref[nutrient] ELSE 100

\* Math.round((value / targetDV) * 100), value in model units
Percentage(value, target, nutrient) ==
    LET t == target * UnitsPer(nutrient)
    IN  (200 * value + t) \div (2 * t)

PositiveNutrients == {"protein", "fiber"}

\* the category names High and Moderate exchanged for protein and fiber
categorizeDailyValue_swapped(percentage, nutrient) ==
    IF nutrient \in PositiveNutrients
    THEN (IF percentage >= 40 THEN "Excellent"
          ELSE IF percentage >= 20 THEN "Moderate"
          ELSE IF percentage >= 10 THEN "High"
          ELSE "Low")
    ELSE (IF percentage >= 50 THEN "Very High"
          ELSE IF percentage >= 30 THEN "High"
          ELSE IF percentage >= 15 THEN "Moderate"
          ELSE IF percentage >= 5 THEN "Low"
          ELSE "Very Low")

\* categorizeDailyValue: the category name
categorizeDailyValue(percentage, nutrient) ==
    IF nutrient \in PositiveNutrients
    THEN (IF percentage >= 40 THEN "Excellent"
          ELSE IF percentage >= 20 THEN "High"
          ELSE IF percentage >= 10 THEN "Moderate"
          ELSE "Low")
    ELSE (IF percentage >= 50 THEN "Very High"
          ELSE IF percentage >= 30 THEN "High"
          ELSE IF percentage >= 15 THEN "Moderate"
          ELSE IF percentage >= 5 THEN "Low"
          ELSE "Very Low")

\* generateDVRecommendation: which of its texts
generateDVRecommendation(percentage, nutrient) ==
    IF nutrient \in PositiveNutrients
    THEN (IF percentage >= 40 THEN "excellent content"
          ELSE IF percentage >= 20 THEN "good source"
          ELSE IF percentage >= 10 THEN "provides some"
          ELSE "low in, look for sources")
    ELSE (IF percentage >= 50 THEN "very high"
          ELSE IF percentage >= 30 THEN "high"
          ELSE IF percentage >= 15 THEN "moderate"
          ELSE "low in, good")

\* const { gender = 'male', profile = 'standard' } = options
DefaultTo(x, default) == IF x = Undefined THEN default ELSE x[1]

calculateDailyValue(value, nutrient, options) ==
    LET gender == DefaultTo(OptionsOf(options).gender, "male")
        profile == DefaultTo(OptionsOf(options).profile, "standard")
        targetDV == TargetDV(gender, profile, nutrient)
        percentage == Percentage(value, targetDV, nutrient)
    IN  [value |-> value,
         percentage |-> percentage,
         target |-> targetDV,
         category |-> categorizeDailyValue(percentage, nutrient),
         recommendation |-> generateDVRecommendation(percentage, nutrient)]

RECURSIVE SumPercentages(_, _)
SumPercentages(results, k) ==
    IF k = 0 THEN 0
    ELSE results[Nutrients[k]].percentage + SumPercentages(results, k - 1)

\* Math.round(sum / nutrients.length)
AveragePercentage(results) ==
    (2 * SumPercentages(results, Len(Nutrients)) + Len(Nutrients))
        \div (2 * Len(Nutrients))

calculateAllDailyValues(nutrition, options) ==
    IF IsNullish(nutrition) THEN Threw("TypeError")
    ELSE
    LET results == [nutrient \in {Nutrients[i] : i \in 1..Len(Nutrients)} |->
                      calculateDailyValue(OrZero(PropsOf(nutrition)[nutrient]),
                                          nutrient, options)]
        gender == OrString(OptionsOf(options).gender, "male")
    IN  Returned(
          [dailyValues |-> results,
           summary |->
             [averagePercentage |-> AveragePercentage(results),
              highNutrients |-> SelectSeq(Nutrients,
                                   LAMBDA name : results[name].percentage >= 30),
              lowNutrients |-> SelectSeq(Nutrients,
                                   LAMBDA name : name \in PositiveNutrients
                                                 /\ results[name].percentage < 10),
              profile |-> OrString(OptionsOf(options).profile, "standard"),
              gender |-> gender,
              genderSymbol |-> IF gender = "male" THEN "male sign" ELSE "female sign"]])

----------------------------------------------------------------------------
(* Population safety engine *)

\* A text is the sequence of its characters.
UpperCaseLetters ==
    <<"A", "B", "C", "D", "E", "F", "G", "H", "I", "J", "K", "L", "M", "N", "O", "P", "Q", "R", "S", "T", "U", "V", "W", "X", "Y", "Z">>

LowerCaseLetters ==
    <<"a", "b", "c", "d", "e", "f", "g", "h", "i", "j", "k", "l", "m", "n", "o", "p", "q", "r", "s", "t", "u", "v", "w", "x", "y", "z">>

\* the lower-case letter of each upper-case letter
LowerCaseOf ==
    [c \in {UpperCaseLetters[k] : k \in 1..26} |->
        LowerCaseLetters[CHOOSE k \in 1..26 : UpperCaseLetters[k] = c]]

\* String.prototype.toLowerCase
ToLowerCase(text) ==
    [i \in 1..Len(text) |->
        IF text[i] \in DOMAIN LowerCaseOf THEN LowerCaseOf[text[i]] ELSE text[i]]

\* String.prototype.includes: term occurs in text as a substring
Includes(text, term) ==
    \E i \in 0..(Len(text) - Len(term)) :
        \A j \in 1..Len(term) : text[i + j] = term[j]

\* x || '' for a text x
OrEmpty(x) == IF x = Undefined THEN << >> ELSE x[1]

\* PREGNANT_LIMITS.avoidIngredients
PregnantAvoidIngredients ==
    << <<"a", "s", "p", "a", "r", "t", "a", "m", "e">>,
       <<"s", "u", "c", "r", "a", "l", "o", "s", "e">>,
       <<"s", "a", "c", "c", "h", "a", "r", "i", "n">>,
       <<"a", "c", "e", "s", "u", "l", "f", "a", "m", "e">>,
       <<"m", "s", "g">>,
       <<"m", "o", "n", "o", "s", "o", "d", "i", "u", "m", " ", "g", "l", "u", "t", "a", "m", "a", "t", "e">>,
       <<"s", "o", "d", "i", "u", "m", " ", "b", "e", "n", "z", "o", "a", "t", "e">>,
       <<"r", "a", "w", " ", "m", "i", "l", "k">>,
       <<"u", "n", "p", "a", "s", "t", "e", "u", "r", "i", "z", "e", "d">>,
       <<"r", "a", "w", " ", "e", "g", "g">>,
       <<"r", "e", "t", "i", "n", "o", "l">>,
       <<"r", "e", "t", "i", "n", "y", "l", " ", "p", "a", "l", "m", "i", "t", "a", "t", "e">>,
       <<"l", "i", "v", "e", "r">>,
       <<"a", "l", "c", "o", "h", "o", "l">>,
       <<"e", "t", "h", "a", "n", "o", "l">>,
       <<"w", "i", "n", "e">>,
       <<"b", "e", "e", "r">>,
       <<"s", "h", "a", "r", "k">>,
       <<"s", "w", "o", "r", "d", "f", "i", "s", "h">>,
       <<"k", "i", "n", "g", " ", "m", "a", "c", "k", "e", "r", "e", "l">>,
       <<"t", "i", "l", "e", "f", "i", "s", "h">> >>

\* CHILD_LIMITS.strictlyAvoided
ChildStrictlyAvoided ==
    << <<"c", "a", "f", "f", "e", "i", "n", "e">>,
       <<"c", "o", "f", "f", "e", "e">>,
       <<"t", "e", "a">>,
       <<"e", "n", "e", "r", "g", "y", " ", "d", "r", "i", "n", "k">>,
       <<"a", "r", "t", "i", "f", "i", "c", "i", "a", "l", " ", "s", "w", "e", "e", "t", "e", "n", "e", "r">>,
       <<"d", "i", "e", "t">>,
       <<"z", "e", "r", "o", " ", "s", "u", "g", "a", "r">>,
       <<"a", "l", "c", "o", "h", "o", "l">>,
       <<"r", "a", "w", " ", "h", "o", "n", "e", "y">>,
       <<"w", "h", "o", "l", "e", " ", "n", "u", "t", "s">>,
       <<"p", "o", "p", "c", "o", "r", "n">>,
       <<"h", "i", "g", "h", " ", "f", "r", "u", "c", "t", "o", "s", "e", " ", "c", "o", "r", "n", " ", "s", "y", "r", "u", "p">> >>

\* CHILD_LIMITS.cautionIngredients
ChildCautionIngredients ==
    << <<"c", "h", "o", "c", "o", "l", "a", "t", "e">>,
       <<"c", "o", "c", "o", "a">>,
       <<"a", "r", "t", "i", "f", "i", "c", "i", "a", "l", " ", "c", "o", "l", "o", "r">>,
       <<"a", "r", "t", "i", "f", "i", "c", "i", "a", "l", " ", "f", "l", "a", "v", "o", "u", "r">>,
       <<"p", "r", "e", "s", "e", "r", "v", "a", "t", "i", "v", "e">>,
       <<"e", "-", "n", "u", "m", "b", "e", "r">>,
       <<"h", "y", "d", "r", "o", "g", "e", "n", "a", "t", "e", "d">>,
       <<"p", "a", "r", "t", "i", "a", "l", "l", "y", " ", "h", "y", "d", "r", "o", "g", "e", "n", "a", "t", "e", "d">>,
       <<"p", "a", "l", "m", " ", "o", "i", "l">>,
       <<"c", "o", "r", "n", " ", "s", "y", "r", "u", "p">> >>

\* the additive codes of PREGNANT_LIMITS.warnings.artificialAdditives
ArtificialAdditiveCodes ==
    << <<"e", "1", "0", "2">>,
       <<"e", "1", "1", "0">>,
       <<"e", "1", "2", "2">>,
       <<"e", "1", "2", "9">>,
       <<"e", "9", "5", "1">>,
       <<"e", "9", "5", "2">> >>

\* chokingRisk of CHILD_LIMITS.warnings.choking
ChokingRisk ==
    << <<"w", "h", "o", "l", "e", " ", "n", "u", "t">>,
       <<"p", "o", "p", "c", "o", "r", "n">>,
       <<"h", "a", "r", "d", " ", "c", "a", "n", "d", "y">>,
       <<"g", "u", "m">>,
       <<"m", "a", "r", "s", "h", "m", "a", "l", "l", "o", "w">> >>

\* highRisk of CHILD_LIMITS.warnings.allergen
HighRiskAllergens == {"peanuts", "tree nuts", "shellfish", "fish"}

\* PREGNANT_LIMITS: sugar, saturated fat, protein, fiber in tenths of g, salt
\* in hundredths of g, caffeine, iron and calcium in mg
PREGNANT_LIMITS ==
    [sugar |-> [safe |-> 30, moderate |-> 50],
     salt |-> [safe |-> 20, moderate |-> 30],
     caffeine |-> [moderate |-> 20],
     saturatedFat |-> [safe |-> 30, moderate |-> 50],
     nutrients |-> [protein |-> 50, fiber |-> 30, iron |-> 2, calcium |-> 100]]

\* CHILD_LIMITS, same units; essentialNutrients has no fiber entry, for which
\* checkEssentialNutrients takes 3 g
CHILD_LIMITS ==
    [sugar |-> [safe |-> 20, moderate |-> 30],
     salt |-> [safe |-> 10, moderate |-> 20],
     fat |-> [safe |-> 80, moderate |-> 100],
     saturatedFat |-> [safe |-> 20, moderate |-> 30],
     nutrients |-> [protein |-> 30, fiber |-> 30, iron |-> 1, calcium |-> 150]]

\* a message: its template, the nutrient it is about, the numbers filled in
Message(text, about, arg) == [text |-> text, about |-> about, arg |-> arg]

\* productData = {} when the argument is left out
NoProductData ==
    [ingredients |-> Undefined, name |-> Undefined, allergens |-> Undefined,
     nova |-> Undefined]

ProductDataOf(productData) ==
    IF productData = Undefined THEN NoProductData ELSE productData[1]

\* a nutrient within its safe limit taking 10 off the severity
evaluateNutrient_rewarding(value, limits, nutrientName) ==
    IF value <= limits.safe
    THEN [severity |-> 0 - 10, warning |-> << >>,
          positive |-> <<Message("Low - excellent", nutrientName, <<value>>)>>]
    ELSE IF value <= limits.moderate
    THEN [severity |-> 20, positive |-> << >>,
          warning |-> <<Message("Moderate", nutrientName, <<value>>)>>]
    ELSE [severity |-> 40, positive |-> << >>,
          warning |-> <<Message("High", nutrientName, <<value>>)>>]

evaluateNutrient(value, limits, nutrientName) ==
    IF value <= limits.safe
    THEN [severity |-> 0, warning |-> << >>,
          positive |-> <<Message("Low - excellent", nutrientName, <<value>>)>>]
    ELSE IF value <= limits.moderate
    THEN [severity |-> 20, positive |-> << >>,
          warning |-> <<Message("Moderate", nutrientName, <<value>>)>>]
    ELSE [severity |-> 40, positive |-> << >>,
          warning |-> <<Message("High", nutrientName, <<value>>)>>]

\* the index of the first term of avoidList found in the ingredients or the
\* name, 0 when none is
FirstAvoided(productData, avoidList) ==
    LET ingredients == ToLowerCase(OrEmpty(productData.ingredients))
        productName == ToLowerCase(OrEmpty(productData.name))
        hits == {k \in 1..Len(avoidList) :
                    \/ Includes(ingredients, ToLowerCase(avoidList[k]))
                    \/ Includes(productName, ToLowerCase(avoidList[k]))}
    IN  IF hits = {} THEN 0 ELSE CHOOSE k \in hits : \A j \in hits : k <= j

\* the scan that looks at the ingredients text only, not at the product name
checkStrictlyAvoided_ingredientsOnly(productData, targetGroup) ==
    LET avoidList == IF targetGroup = "pregnant" THEN PregnantAvoidIngredients
                     ELSE IF targetGroup = "child" THEN ChildStrictlyAvoided
                     ELSE << >>
        found == FirstAvoided([productData EXCEPT !.name = Undefined], avoidList)
    IN  [isViolated |-> found # 0,
         message |-> Message("Contains - strictly not recommended", targetGroup,
                             <<found>>)]

checkStrictlyAvoided(productData, targetGroup) ==
    LET avoidList == IF targetGroup = "pregnant" THEN PregnantAvoidIngredients
                     ELSE IF targetGroup = "child" THEN ChildStrictlyAvoided
                     ELSE << >>
        found == FirstAvoided(productData, avoidList)
    IN  [isViolated |-> found # 0,
         message |-> Message("Contains - strictly not recommended", targetGroup,
                             <<found>>)]

checkEssentialNutrients(nutrition, required) ==
    (IF nutrition.protein # Undefined /\ nutrition.protein[1] >= required.protein
     THEN <<Message("Good protein source", "protein", nutrition.protein)>>
     ELSE << >>)
    \o (IF OrZero(nutrition.fiber) # 0 /\ nutrition.fiber[1] >= required.fiber
        THEN <<Message("High fiber", "fiber", nutrition.fiber)>> ELSE << >>)
    \o (IF OrZero(nutrition.iron) # 0 /\ nutrition.iron[1] >= required.iron
        THEN <<Message("Contains iron", "iron", << >>)>> ELSE << >>)
    \o (IF OrZero(nutrition.calcium) # 0 /\ nutrition.calcium[1] >= required.calcium
        THEN <<Message("Good calcium source", "calcium", << >>)>> ELSE << >>)

\* the indices of the caution terms found in the ingredients, in list order
checkCautionIngredients(ingredients, cautionList) ==
    SelectSeq([k \in 1..Len(cautionList) |-> k],
              LAMBDA k : Includes(ToLowerCase(ingredients),
                                  ToLowerCase(cautionList[k])))

\* caffeine in mg estimated from the ingredients text
detectCaffeineFromIngredients(ingredients) ==
    IF ingredients = Undefined \/ ingredients[1] = << >> THEN 0
    ELSE LET ingredientsLower == ToLowerCase(ingredients[1])
         IN  IF Includes(ingredientsLower, <<"c", "o", "f", "f", "e", "e">>) THEN 80
             ELSE IF Includes(ingredientsLower, <<"e", "s", "p", "r", "e", "s", "s", "o">>) THEN 120
             ELSE IF \/ Includes(ingredientsLower, <<"t", "e", "a">>)
                     \/ Includes(ingredientsLower, <<"g", "r", "e", "e", "n", " ", "t", "e", "a">>) THEN 30
             ELSE IF \/ Includes(ingredientsLower, <<"c", "h", "o", "c", "o", "l", "a", "t", "e">>)
                     \/ Includes(ingredientsLower, <<"c", "o", "c", "o", "a">>) THEN 10
             ELSE IF Includes(ingredientsLower, <<"e", "n", "e", "r", "g", "y">>) THEN 100
             ELSE 0

\* x < limit for a number or undefined x (undefined compares false)
IsBelow(x, limit) == x # Undefined /\ x[1] < limit

IsAbove(x, limit) == x # Undefined /\ x[1] > limit

IsAtLeast(x, limit) == x # Undefined /\ x[1] >= limit

\* limits.warnings of a group: the messages of the triggers that fire, in the
\* order of the table
TriggeredWarnings(nutrition, targetGroup, productData) ==
    IF targetGroup = "pregnant"
    THEN (IF OrZero(productData.nova) >= 4
          THEN <<Message("Ultra-processed foods may lack essential nutrients",
                         "highlyProcessed", << >>)>> ELSE << >>)
      \o (IF IsBelow(nutrition.protein, 20)
          THEN <<Message("Low protein content", "lowProtein", << >>)>> ELSE << >>)
      \o (IF IsAbove(nutrition.calories, 400)
          THEN <<Message("Very high calorie density", "highCalories", << >>)>>
          ELSE << >>)
      \o (IF \E k \in 1..Len(ArtificialAdditiveCodes) :
                Includes(ToLowerCase(OrEmpty(productData.ingredients)),
                         ArtificialAdditiveCodes[k])
          THEN <<Message("Contains artificial additives", "artificialAdditives",
                         << >>)>> ELSE << >>)
    ELSE (IF \E k \in 1..Len(ChokingRisk) :
                Includes(ToLowerCase(OrEmpty(productData.name)), ChokingRisk[k])
          THEN <<Message("CHOKING HAZARD", "choking", << >>)>> ELSE << >>)
      \o (IF /\ productData.allergens # Undefined
             /\ \E i \in 1..Len(productData.allergens[1]) :
                   productData.allergens[1][i] \in HighRiskAllergens
          THEN <<Message("Contains common allergens", "allergen", << >>)>>
          ELSE << >>)
      \o (IF IsBelow(nutrition.protein, 20) /\ IsBelow(nutrition.fiber, 10)
          THEN <<Message("Low nutritional value", "lowNutrients", << >>)>>
          ELSE << >>)
      \o (IF OrZero(productData.nova) >= 4
          THEN <<Message("Ultra-processed food", "ultraProcessed", << >>)>>
          ELSE << >>)

\* the first k elements: Array.prototype.slice(0, k)
Slice(s, k) == SubSeq(s, 1, Min(k, Len(s)))

generateExplanation(category, warnings, positives) ==
    IF category = "good"
    THEN [category |-> category, positives |-> Slice(positives, 2),
          warnings |-> Slice(warnings, 1)]
    ELSE IF category = "moderate"
    THEN [category |-> category, positives |-> << >>,
          warnings |-> Slice(warnings, 2)]
    ELSE [category |-> category, positives |-> << >>,
          warnings |-> Slice(warnings, 3)]

createInsufficientDataResult(targetGroup) ==
    [suitability |-> "Insufficient Data",
     warnings |-> <<Message("Not enough nutrition information to evaluate safety",
                            "", << >>)>>,
     positives |-> << >>,
     explanation |-> [category |-> "insufficient", positives |-> << >>,
                      warnings |-> << >>],
     severityScore |-> Undefined,
     targetGroup |-> targetGroup]

createAvoidResult(targetGroup, warnings) ==
    [suitability |-> "Avoid",
     warnings |-> warnings,
     positives |-> << >>,
     explanation |-> [category |-> "strictly avoided", positives |-> << >>,
                      warnings |-> << >>],
     severityScore |-> Num(100),
     targetGroup |-> targetGroup]

\* the ladder with an exclusive bound for Avoid
SuitabilityOf_exclusive(severityScore) ==
    IF severityScore > 80 THEN "Avoid"
    ELSE IF severityScore >= 40 THEN "Moderate"
    ELSE "Good Choice"

\* the suitability ladder on the accumulated severity
SuitabilityOf(severityScore) ==
    IF severityScore >= 80 THEN "Avoid"
    ELSE IF severityScore >= 40 THEN "Moderate"
    ELSE "Good Choice"

CategoryOf(severityScore) ==
    IF severityScore >= 80 THEN "avoid"
    ELSE IF severityScore >= 40 THEN "moderate"
    ELSE "good"

\* steps 2 to 10 of evaluateFoodForPopulation for a recognised group:
\* the severity, warnings and positives accumulated
Accumulated(nutrition, targetGroup, productData) ==
    LET limits == IF targetGroup = "pregnant" THEN PREGNANT_LIMITS ELSE CHILD_LIMITS
        sugarResult == evaluateNutrient(OrZero(nutrition.sugar), limits.sugar, "sugar")
        saltResult == evaluateNutrient(OrZero(nutrition.salt), limits.salt, "salt")
        satFatResult == evaluateNutrient(OrZero(nutrition.saturatedFat),
                                         limits.saturatedFat, "saturated fat")
        fatResult == IF targetGroup = "child"
                     THEN evaluateNutrient(OrZero(nutrition.fat), CHILD_LIMITS.fat, "fat")
                     ELSE [severity |-> 0, warning |-> << >>, positive |-> << >>]
        caffeineAmount == IF OrZero(nutrition.caffeine) # 0 THEN nutrition.caffeine[1]
                          ELSE detectCaffeineFromIngredients(productData.ingredients)
        caffeine == targetGroup = "pregnant"
                    /\ caffeineAmount > PREGNANT_LIMITS.caffeine.moderate
        triggered == TriggeredWarnings(nutrition, targetGroup, productData)
        cautionFound == IF targetGroup = "child"
                           /\ productData.ingredients # Undefined
                           /\ productData.ingredients[1] # << >>
                        THEN checkCautionIngredients(productData.ingredients[1],
                                                     ChildCautionIngredients)
                        ELSE << >>
    IN  [severityScore |->
             sugarResult.severity + saltResult.severity + satFatResult.severity
             + fatResult.severity + (IF caffeine THEN 50 ELSE 0)
             + 15 * Len(triggered) + (IF cautionFound # << >> THEN 10 ELSE 0),
         warnings |->
             sugarResult.warning \o saltResult.warning \o satFatResult.warning
             \o fatResult.warning
             \o (IF caffeine
                 THEN <<Message("Contains caffeine", "caffeine", <<caffeineAmount>>)>>
                 ELSE << >>)
             \o triggered
             \o (IF cautionFound # << >>
                 THEN <<Message("Contains - limit consumption", "caution", cautionFound)>>
                 ELSE << >>),
         positives |->
             sugarResult.positive \o saltResult.positive
             \o checkEssentialNutrients(nutrition, limits.nutrients)
             \o (IF IsAtLeast(nutrition.fiber, 30)
                 THEN <<Message("Good fiber content", "fiber", nutrition.fiber)>>
                 ELSE << >>)]

\* the evaluation that scans the denylist before it validates the nutrition
evaluateFoodForPopulation_scanFirst(nutrition, targetGroup, productData) ==
    LET strictCheck == checkStrictlyAvoided(ProductDataOf(productData), targetGroup)
        acc == Accumulated(nutrition.rec, targetGroup, ProductDataOf(productData))
    IN  IF targetGroup \notin {"pregnant", "child"}
        THEN Returned(createInsufficientDataResult(targetGroup))
        ELSE IF strictCheck.isViolated
        THEN Returned(createAvoidResult(targetGroup, <<strictCheck.message>>))
        ELSE IF nutrition.type # "object"
        THEN Returned(createInsufficientDataResult(targetGroup))
        ELSE Returned(
               [suitability |-> SuitabilityOf(acc.severityScore),
                warnings |-> acc.warnings,
                positives |-> acc.positives,
                explanation |-> generateExplanation(CategoryOf(acc.severityScore),
                                                    acc.warnings, acc.positives),
                severityScore |-> Num(acc.severityScore),
                targetGroup |-> targetGroup])

evaluateFoodForPopulation(nutrition, targetGroup, productData) ==
    IF nutrition.type # "object"
    THEN Returned(createInsufficientDataResult(targetGroup))
    ELSE IF targetGroup \notin {"pregnant", "child"}
    THEN Returned(createInsufficientDataResult(targetGroup))
    ELSE
    LET strictCheck == checkStrictlyAvoided(ProductDataOf(productData), targetGroup)
        acc == Accumulated(nutrition.rec, targetGroup, ProductDataOf(productData))
    IN  IF strictCheck.isViolated
        THEN Returned(createAvoidResult(targetGroup, <<strictCheck.message>>))
        ELSE Returned(
               [suitability |-> SuitabilityOf(acc.severityScore),
                warnings |-> acc.warnings,
                positives |-> acc.positives,
                explanation |-> generateExplanation(CategoryOf(acc.severityScore),
                                                    acc.warnings, acc.positives),
                severityScore |-> Num(acc.severityScore),
                targetGroup |-> targetGroup])

----------------------------------------------------------------------------
(* Inputs *)

\* the largest value of each nutrient the inputs reach
MaxCalories == 900

MaxSugar == 1000

MaxFat == 800

MaxSalt == 1000

MaxProtein == 200

MaxFiber == 150

\* values around the thresholds of the engines, negative ones, undefined
CaloriesValues ==
    {Undefined} \cup {Num(v) : v \in {-50, 99, 150, 350, 401, 500, MaxCalories}}

SugarValues ==
    {Undefined} \cup {Num(v) : v \in {-10, 20, 80, 101, 151, 300, MaxSugar}}

FatValues ==
    {Undefined} \cup {Num(v) : v \in {30, 150, 201, 350, MaxFat}}

SaltValues ==
    {Undefined} \cup {Num(v) : v \in {10, 40, 250, MaxSalt}}

ProteinValues ==
    {Undefined} \cup {Num(v) : v \in {30, 80, 100, MaxProtein}}

FiberValues ==
    {Undefined} \cup {Num(v) : v \in {50, 100, MaxFiber}}

\* a nutrition object with the six scored nutrients
ScoredRecord(calories, sugar, fat, salt, protein, fiber) ==
    [NoNutrients EXCEPT !.calories = calories, !.sugar = sugar, !.fat = fat,
                        !.salt = salt, !.protein = protein, !.fiber = fiber]

Object(rec) == [type |-> "object", rec |-> rec]

\* an argument that is not an object: null, undefined (left out), a number
NonObjects ==
    {[type |-> t, rec |-> NoNutrients] : t \in {"null", "undefined", "number"}}

ScoredObjects ==
    {Object(ScoredRecord(c, su, f, sa, p, fi)) :
        c \in CaloriesValues, su \in SugarValues, f \in FatValues,
        sa \in SaltValues, p \in ProteinValues, fi \in FiberValues}

\* an options object
Options(gender, isDiabetic, diabeticType, activityLevel, profile) ==
    Num([gender |-> gender, isDiabetic |-> isDiabetic, diabeticType |-> diabeticType,
         activityLevel |-> activityLevel, profile |-> profile])

\* the options of a scoring call, and the options argument left out
ScoreOptionsValues ==
    {Undefined} \cup
    {Options(g, d, Undefined, a, Undefined) :
        g \in {Undefined, Num("female")},
        d \in {Undefined, Num(TRUE), Num(FALSE)},
        a \in {Undefined}}

----------------------------------------------------------------------------
(* Engine calls: the arguments are chosen, then the function runs *)

NoCall == [pc |-> "idle"]

\* const state = { totalScans: 0, healthyChoices: 0, currentProduct: null,
\* scanHistory: [], ... }; scanning holds the scanProduct calls in flight
NoScans ==
    [totalScans |-> 0, healthyChoices |-> 0, currentProduct |-> Undefined,
     scanHistory |-> << >>, scanning |-> {}]

NoFetch ==
    /\ apiCache = << >>
    /\ now = 0
    /\ call = NoCall
    /\ state = NoScans

InitScore ==
    /\ fn = "calculateHealthScore"
    /\ args \in [nutrition : NonObjects \cup ScoredObjects,
                 options : ScoreOptionsValues]
    /\ result = Pending
    /\ NoFetch

CallHealthScore ==
    /\ fn = "calculateHealthScore"
    /\ result = Pending
    /\ result' = calculateHealthScore(args.nutrition, args.options)
    /\ UNCHANGED <<state, fn, args, apiCache, now, call>>

SpecScore == InitScore /\ [][CallHealthScore]_vars

\* the nutrition objects given to the diabetic engine: the sugar bands
\* (with both ends of the gap between 3 g and 5 g), carbs given, 0 or left out
DiabeticObjects ==
    {Object([NoNutrients EXCEPT !.sugar = su, !.carbs = cb, !.fat = f,
                                !.calories = c, !.salt = sa, !.fiber = fi,
                                !.protein = p]) :
        su \in SugarValues \cup {Num(30), Num(31), Num(40), Num(50), Num(51),
                                  Num(100), Num(150), Num(200), Num(201)},
        cb \in {Undefined, Num(0), Num(500), Num(501)},
        f \in {Undefined, Num(201)},
        c \in {Undefined, Num(350), Num(MaxCalories)},
        sa \in {Undefined, Num(250)},
        fi \in {Undefined, Num(50), Num(100)},
        p \in {Undefined, Num(MaxProtein)}}

DiabeticOptionsValues ==
    {Undefined} \cup
    {Options(Undefined, d, t, Undefined, Undefined) :
        d \in {Undefined, Num(TRUE), Num(FALSE)},
        t \in {Undefined, Num("type1"), Num("type2")}}

InitDiabetic ==
    /\ fn = "generateDiabeticWarnings"
    /\ args \in [nutrition : NonObjects \cup DiabeticObjects,
                 options : DiabeticOptionsValues]
    /\ result = Pending
    /\ NoFetch

CallDiabeticWarnings ==
    /\ fn = "generateDiabeticWarnings"
    /\ result = Pending
    /\ result' = generateDiabeticWarnings(args.nutrition, args.options)
    /\ UNCHANGED <<state, fn, args, apiCache, now, call>>

SpecDiabetic == InitDiabetic /\ [][CallDiabeticWarnings]_vars

\* the largest single nutrient value given to calculateDailyValue
MaxDvValue == 1300

\* every value from a few negative ones up to the largest, in steps of one unit
DvValues == (0 - 20)..MaxDvValue

\* gender and profile as given, recognised or not, and the options left out
DvOptionsValues ==
    {Undefined} \cup
    {Options(g, Undefined, Undefined, Undefined, pr) :
        g \in {Undefined, Num("female"), Num("other"), Num("athlete")},
        pr \in {Undefined, Num("pregnant"), Num("athlete")}}

\* nutrition objects for calculateAllDailyValues
DvObjects ==
    {Object(ScoredRecord(c, su, f, sa, p, fi)) :
        c \in {Undefined, Num(0 - 50), Num(350), Num(MaxCalories)},
        su \in {Undefined, Num(0 - 10), Num(80), Num(300)},
        f \in {Undefined, Num(150), Num(MaxFat)},
        sa \in {Undefined, Num(40), Num(250)},
        p \in {Undefined, Num(30), Num(MaxProtein)},
        fi \in {Undefined, Num(50), Num(MaxFiber)}}

InitDailyValue ==
    \/ /\ fn = "calculateDailyValue"
       /\ args \in [value : DvValues,
                    nutrient : {Nutrients[i] : i \in 1..Len(Nutrients)},
                    options : DvOptionsValues]
       /\ result = Pending
       /\ NoFetch
    \/ /\ fn = "calculateAllDailyValues"
       /\ args \in [nutrition : NonObjects \cup DvObjects,
                    options : DvOptionsValues]
       /\ result = Pending
       /\ NoFetch

CallDailyValue ==
    /\ fn = "calculateDailyValue"
    /\ result = Pending
    /\ result' = Returned(calculateDailyValue(args.value, args.nutrient, args.options))
    /\ UNCHANGED <<state, fn, args, apiCache, now, call>>

CallAllDailyValues ==
    /\ fn = "calculateAllDailyValues"
    /\ result = Pending
    /\ result' = calculateAllDailyValues(args.nutrition, args.options)
    /\ UNCHANGED <<state, fn, args, apiCache, now, call>>

SpecDailyValue == InitDailyValue /\ [][CallDailyValue \/ CallAllDailyValues]_vars

\* the score and daily value engines called with a nutrition argument that is
\* missing, a primitive or an object
InitMissing ==
    /\ fn \in {"calculateHealthScore", "calculateAllDailyValues"}
    /\ args \in [nutrition : NonObjects \cup DvObjects,
                 options : IF fn = "calculateHealthScore" THEN ScoreOptionsValues
                           ELSE DvOptionsValues]
    /\ result = Pending
    /\ NoFetch

SpecMissing == InitMissing /\ [][CallHealthScore \/ CallAllDailyValues]_vars

\* ingredients texts and product names given to the population engine
OatWater == <<"o", "a", "t", ",", " ", "w", "a", "t", "e", "r">>

ContainsAlcohol == <<"C", "o", "n", "t", "a", "i", "n", "s", " ", "A", "l", "c", "o", "h", "o", "l">>

SteamedRice == <<"s", "t", "e", "a", "m", "e", "d", " ", "r", "i", "c", "e">>

CocoaPalmOil == <<"c", "o", "c", "o", "a", ",", " ", "p", "a", "l", "m", " ", "o", "i", "l">>

Coffee == <<"c", "o", "f", "f", "e", "e">>

SugarE102 == <<"s", "u", "g", "a", "r", ",", " ", "E", "1", "0", "2">>

Aspartame == <<"a", "s", "p", "a", "r", "t", "a", "m", "e">>

Popcorn == <<"P", "o", "p", "c", "o", "r", "n">>

ChewingGum == <<"C", "h", "e", "w", "i", "n", "g", " ", "G", "u", "m">>

RedWine == <<"R", "e", "d", " ", "W", "i", "n", "e">>

RawFishRice == <<"r", "a", "w", " ", "f", "i", "s", "h", ",", " ", "r", "i", "c", "e">>

WaterCaffeine == <<"w", "a", "t", "e", "r", ",", " ", "c", "a", "f", "f", "e", "i", "n", "e">>

OatsHoney == <<"o", "a", "t", "s", ",", " ", "h", "o", "n", "e", "y">>

Marshmallow == <<"s", "u", "g", "a", "r", ",", " ", "m", "a", "r", "s", "h", "m", "a", "l", "l", "o", "w">>

\* a productData object
ProductData(ingredients, name, allergens, nova) ==
    Num([ingredients |-> ingredients, name |-> name, allergens |-> allergens,
         nova |-> nova])

\* productData left out, with each ingredients text, with each name, and with
\* allergens and a NOVA group
ProductDataValues ==
    {Undefined}
    \cup {ProductData(Num(text), Undefined, Undefined, Undefined) :
            text \in {OatWater, ContainsAlcohol, SteamedRice, CocoaPalmOil, Coffee,
                      SugarE102, Aspartame, RawFishRice, WaterCaffeine, OatsHoney,
                      Marshmallow, Popcorn}}
    \cup {ProductData(Num(OatWater), Num(name), Undefined, Undefined) :
            name \in {Popcorn, ChewingGum, RedWine}}
    \cup {ProductData(Num(OatWater), Undefined, Num(<<"peanuts">>), Undefined),
          ProductData(Num(OatWater), Undefined, Num(<<"milk">>), Num(4)),
          ProductData(Num(CocoaPalmOil), Num(ChewingGum), Num(<<"milk", "fish">>),
                      Num(4)),
          ProductData(Num(SugarE102), Undefined, Undefined, Num(4))}

\* calories, caffeine (mg), iron (mg) and calcium (mg) of a record
PopulationExtras ==
    {<<Undefined, Undefined, Undefined, Undefined>>,
     <<Num(450), Undefined, Num(3), Num(200)>>,
     <<Undefined, Num(30), Undefined, Undefined>>,
     <<Num(450), Num(30), Num(1), Undefined>>}

\* nutrition objects on both sides of the safe and moderate limits of both groups
PopulationObjects ==
    {Object([NoNutrients EXCEPT !.sugar = su, !.salt = sa, !.saturatedFat = sf,
                                !.fat = f, !.protein = p, !.fiber = fi,
                                !.calories = x[1], !.caffeine = x[2],
                                !.iron = x[3], !.calcium = x[4]]) :
        su \in {Undefined, Num(25), Num(40), Num(60)},
        sa \in {Undefined, Num(15), Num(60)},
        sf \in {Undefined, Num(60)},
        f \in {Undefined, Num(120)},
        p \in {Undefined, Num(0), Num(60)},
        fi \in {Undefined, Num(5), Num(40)},
        x \in PopulationExtras}

\* a few nutrition objects for the calls that are rejected
FewPopulationObjects ==
    {Object([NoNutrients EXCEPT !.sugar = su, !.salt = sa]) :
        su \in {Undefined, Num(60)}, sa \in {Undefined, Num(60)}}

RecognizedGroups == {"pregnant", "child"}

OtherGroups == {"adult", "Pregnant", "baby_under_6"}

InitPopulation ==
    /\ fn = "evaluateFoodForPopulation"
    /\ \/ args \in [nutrition : PopulationObjects, targetGroup : RecognizedGroups,
                    productData : ProductDataValues]
       \/ args \in [nutrition : FewPopulationObjects, targetGroup : OtherGroups,
                    productData : ProductDataValues]
       \/ args \in [nutrition : NonObjects,
                    targetGroup : RecognizedGroups \cup OtherGroups,
                    productData : ProductDataValues]
    /\ result = Pending
    /\ NoFetch

CallEvaluateFood ==
    /\ fn = "evaluateFoodForPopulation"
    /\ result = Pending
    /\ result' = evaluateFoodForPopulation(args.nutrition, args.targetGroup,
                                           args.productData)
    /\ UNCHANGED <<state, fn, args, apiCache, now, call>>

SpecPopulation == InitPopulation /\ [][CallEvaluateFood]_vars

----------------------------------------------------------------------------
(* Product lookup: fetchProductWithHealthScore and the response cache *)

\* API_CONFIG.maxRetries
maxRetries == 3

\* 24 hours in milliseconds
CACHE_DURATION == 24 * 60 * 60 * 1000

\* the advance of Date.now() between two observations: twelve hours
ClockStep == 12 * 60 * 60 * 1000

\* options = {} when the argument is left out
NoFetchOptions ==
    [gender |-> Undefined, isDiabetic |-> Undefined, diabeticType |-> Undefined,
     activityLevel |-> Undefined, profile |-> Undefined, forceRefresh |-> Undefined]

FetchOptionsOf(options) == IF options = Undefined THEN NoFetchOptions ELSE options[1]

\* a || b || 0 for two numbers that may be absent
Either(a, b) == IF OrZero(a) # 0 THEN a[1] ELSE OrZero(b)

\* the nutriments of a product without any
NoNutriments ==
    [calories |-> Undefined, carbs |-> Undefined, sugar |-> Undefined,
     fat |-> Undefined, saturatedFat |-> Undefined, protein |-> Undefined,
     fiber |-> Undefined, salt |-> Undefined]

\* per100g holds the keys ending in _100g, plain the keys without the suffix
extractNutritionData(apiProduct) ==
    LET per100g == apiProduct.nutriments.per100g
        plain == apiProduct.nutriments.plain
    IN  Object([NoNutrients EXCEPT
            !.calories = Num(Either(per100g.calories, plain.calories)),
            !.carbs = Num(Either(per100g.carbs, plain.carbs)),
            !.sugar = Num(Either(per100g.sugar, plain.sugar)),
            !.fat = Num(Either(per100g.fat, plain.fat)),
            !.saturatedFat = Num(Either(per100g.saturatedFat, plain.saturatedFat)),
            !.protein = Num(Either(per100g.protein, plain.protein)),
            !.fiber = Num(Either(per100g.fiber, plain.fiber)),
            !.salt = Num(Either(per100g.salt, plain.salt))])

\* the options object enrichProductData hands to calculateHealthScore
HealthScoreOptions(options) ==
    Options(Num(OrString(options.gender, "male")), Num(OrFalse(options.isDiabetic)),
            Undefined, Num(OrString(options.activityLevel, "moderate")), Undefined)

\* the options object enrichProductData hands to calculateAllDailyValues
DailyValueOptions(options) ==
    Options(Num(OrString(options.gender, "male")), Undefined, Undefined, Undefined,
            Num(OrString(options.profile, "standard")))

\* the options object enrichProductData hands to generateDiabeticWarnings
DiabeticWarningOptions(options) ==
    Options(Undefined, Num(OrFalse(options.isDiabetic)),
            Num(OrString(options.diabeticType, "type2")), Undefined, Undefined)

\* the health analysis of a nutrition record under the caller's options
HealthAnalysis(nutrition, options) ==
    [healthScore |->
        calculateHealthScore(nutrition, HealthScoreOptions(options)).value,
     dailyValues |->
        calculateAllDailyValues(nutrition, DailyValueOptions(options)).value,
     diabeticWarnings |->
        generateDiabeticWarnings(nutrition, DiabeticWarningOptions(options)).value]

\* the enriched product: name, nutrition and health analysis (image, allergens,
\* ingredients, quality scores and metadata do not depend on the options)
enrichProductData(apiProduct, barcode, options) ==
    LET nutrition == extractNutritionData(apiProduct)
        analysis == HealthAnalysis(nutrition, options)
    IN  [name |-> OrString(apiProduct.product_name, "Unknown Product"),
         barcode |-> barcode,
         nutrition |-> nutrition,
         healthScore |-> analysis.healthScore,
         dailyValues |-> analysis.dailyValues,
         diabeticWarnings |-> analysis.diabeticWarnings]

\* apiCache.delete(key)
CacheDelete(cache, key) ==
    IF DOMAIN cache \ {key} = {} THEN << >>
    ELSE [k \in DOMAIN cache \ {key} |-> cache[k]]

\* apiCache.set(key, { data, timestamp: Date.now() })
setCachedData(cache, key, data, time) ==
    [k \in DOMAIN cache \cup {key} |->
        IF k = key THEN [data |-> data, timestamp |-> time] ELSE cache[k]]

\* the entry is fresh while its age is at most CACHE_DURATION
CacheFresh(cache, key, time) ==
    /\ key \in DOMAIN cache
    /\ time - cache[key].timestamp <= CACHE_DURATION

\* the cache after getCachedData(key): an entry that has expired is deleted
getCachedData(cache, key, time) ==
    IF key \in DOMAIN cache /\ ~CacheFresh(cache, key, time)
    THEN CacheDelete(cache, key)
    ELSE cache

\* the clock is observed at most MaxTicks steps after the start
MaxTicks == 4

\* a hazelnut spread: every nutriment under its _100g key, no fiber
HazelnutSpread ==
    [product_name |-> Num("Nutella"),
     nutriments |->
        [per100g |-> [NoNutriments EXCEPT
                        !.calories = Num(539), !.carbs = Num(575),
                        !.sugar = Num(563), !.fat = Num(309),
                        !.saturatedFat = Num(106), !.protein = Num(63),
                        !.salt = Num(11)],
         plain |-> NoNutriments]]

\* an oat bar: sugar and fiber only under the keys without suffix, no name
OatBar ==
    [product_name |-> Undefined,
     nutriments |->
        [per100g |-> [NoNutriments EXCEPT
                        !.calories = Num(380), !.carbs = Num(600),
                        !.fat = Num(90), !.protein = Num(110),
                        !.salt = Num(0)],
         plain |-> [NoNutriments EXCEPT
                        !.sugar = Num(120), !.fiber = Num(80),
                        !.salt = Num(20)]]]

\* the products the food database answers with, by barcode
Catalogue ==
    [b \in {"3017620422003", "7300400481588"} |->
        IF b = "3017620422003" THEN HazelnutSpread ELSE OatBar]

\* the barcodes looked up: two products and a barcode the database lacks
Barcodes == DOMAIN Catalogue \cup {"0000000000000"}

FetchOptions(gender, isDiabetic, diabeticType, profile, forceRefresh) ==
    Num([NoFetchOptions EXCEPT !.gender = gender, !.isDiabetic = isDiabetic,
                               !.diabeticType = diabeticType, !.profile = profile,
                               !.forceRefresh = forceRefresh])

\* the options of a lookup, and the options argument left out
FetchOptionsValues ==
    {Undefined,
     FetchOptions(Num("male"), Num(FALSE), Undefined, Undefined, Undefined),
     FetchOptions(Num("female"), Num(TRUE), Undefined, Undefined, Undefined),
     FetchOptions(Num("female"), Num(TRUE), Num("type1"), Undefined, Undefined),
     FetchOptions(Num("female"), Undefined, Undefined, Num("pregnant"), Undefined),
     FetchOptions(Num("female"), Num(TRUE), Undefined, Undefined, Num(TRUE))}

\* what one request to the database ends in
Outcomes == {"ok", "http", "network", "abort"}

InitFetch ==
    /\ fn = "fetchProductWithHealthScore"
    /\ args = [barcode |-> "", options |-> Undefined]
    /\ result = Returned(<< >>)
    /\ NoFetch

\* a call up to its first request: the cache lookup, and the cached product
\* returned unless options.forceRefresh
\* (call.entered keeps the cache as the call found it, call.at the time)
Lookup(barcode, options) ==
    /\ call.pc = "idle"
    /\ args' = [barcode |-> barcode, options |-> options]
    /\ LET cache == getCachedData(apiCache, barcode, now)
       IN  /\ apiCache' = cache
           /\ IF barcode \in DOMAIN cache /\ ~OrFalse(FetchOptionsOf(options).forceRefresh)
              THEN /\ result' = Returned(cache[barcode].data)
                   /\ call' = NoCall
              ELSE /\ result' = Pending
                   /\ call' = [pc |-> "request", attempt |-> 1,
                               entered |-> apiCache, at |-> now]
    /\ UNCHANGED <<state, fn, now>>

\* the retry loop going on after 'product not found' and after an abort
Request_retryAll(outcome) ==
    /\ call.pc = "request"
    /\ IF outcome = "ok" /\ args.barcode \in DOMAIN Catalogue
       THEN LET enrichedProduct ==
                    enrichProductData(Catalogue[args.barcode], args.barcode,
                                      FetchOptionsOf(args.options))
            IN  /\ apiCache' = setCachedData(apiCache, args.barcode, enrichedProduct, now)
                /\ result' = Returned(enrichedProduct)
                /\ call' = NoCall
       ELSE LET lastError == IF outcome = "ok" THEN "PRODUCT_NOT_FOUND"
                             ELSE IF outcome = "abort" THEN "AbortError"
                             ELSE IF outcome = "http" THEN "HTTP"
                             ELSE "NetworkError"
            IN  /\ apiCache' = apiCache
                /\ IF call.attempt >= maxRetries
                   THEN /\ result' = Threw(lastError)
                        /\ call' = NoCall
                   ELSE /\ result' = result
                        /\ call' = [call EXCEPT !.attempt = @ + 1]
    /\ UNCHANGED <<state, fn, args, now>>

\* one turn of the retry loop: the request ends in an outcome
Request(outcome) ==
    /\ call.pc = "request"
    /\ IF outcome = "ok" /\ args.barcode \in DOMAIN Catalogue
       THEN LET enrichedProduct ==
                    enrichProductData(Catalogue[args.barcode], args.barcode,
                                      FetchOptionsOf(args.options))
            IN  /\ apiCache' = setCachedData(apiCache, args.barcode, enrichedProduct, now)
                /\ result' = Returned(enrichedProduct)
                /\ call' = NoCall
       ELSE LET lastError == IF outcome = "ok" THEN "PRODUCT_NOT_FOUND"
                             ELSE IF outcome = "abort" THEN "AbortError"
                             ELSE IF outcome = "http" THEN "HTTP"
                             ELSE "NetworkError"
            IN  /\ apiCache' = apiCache
                /\ IF lastError \in {"PRODUCT_NOT_FOUND", "AbortError"}
                      \/ call.attempt >= maxRetries
                   THEN /\ result' = Threw(lastError)
                        /\ call' = NoCall
                   ELSE /\ result' = result
                        /\ call' = [call EXCEPT !.attempt = @ + 1]
    /\ UNCHANGED <<state, fn, args, now>>

clearCache ==
    /\ call.pc = "idle"
    /\ apiCache # << >>
    /\ apiCache' = << >>
    /\ UNCHANGED <<state, fn, args, result, now, call>>

\* Date.now() advances
Tick ==
    /\ fn = "fetchProductWithHealthScore"
    /\ now < MaxTicks * ClockStep
    /\ now' = now + ClockStep
    /\ UNCHANGED <<state, fn, args, result, apiCache, call>>

FetchProduct ==
    /\ fn = "fetchProductWithHealthScore"
    /\ \E barcode \in Barcodes, options \in FetchOptionsValues :
           Lookup(barcode, options)

FetchResponds ==
    /\ fn = "fetchProductWithHealthScore"
    /\ \E outcome \in Outcomes : Request(outcome)

ClearCache ==
    /\ fn = "fetchProductWithHealthScore"
    /\ clearCache

SpecFetch ==
    InitFetch /\ [][FetchProduct \/ FetchResponds \/ ClearCache \/ Tick]_vars

----------------------------------------------------------------------------
(* Quick diabetic risk assessment *)

\* assessDiabeticRisk adding less for fat above 30 g than for fat above 20 g
assessDiabeticRisk_dipping(nutrition, isDiabetic) ==
    IF ~DefaultTo(isDiabetic, FALSE)
    THEN Returned([risk |-> "not_applicable", score |-> 0,
                   recommendation |-> Undefined, severity |-> Undefined])
    ELSE IF IsNullish(nutrition) THEN Threw("TypeError")
    ELSE
    LET sugar == OrZero(PropsOf(nutrition).sugar)
        fat == OrZero(PropsOf(nutrition).fat)
        riskScore ==
            (IF sugar > 200 THEN 50 ELSE IF sugar > 150 THEN 35
             ELSE IF sugar > 100 THEN 20 ELSE IF sugar > 50 THEN 10 ELSE 0)
            + (IF fat > 300 THEN 5 ELSE IF fat > 200 THEN 10 ELSE 0)
            + (IF sugar > 100 /\ fat > 200 THEN 20 ELSE 0)
        risk == IF riskScore >= 70 THEN "critical"
                ELSE IF riskScore >= 40 THEN "high"
                ELSE IF riskScore >= 20 THEN "moderate"
                ELSE IF riskScore >= 10 THEN "low"
                ELSE "safe"
        severity == CASE risk = "critical" -> DIABETIC_SEVERITY.CRITICAL
                      [] risk = "high" -> DIABETIC_SEVERITY.HIGH
                      [] risk = "moderate" -> DIABETIC_SEVERITY.MODERATE
                      [] risk = "low" -> DIABETIC_SEVERITY.LOW
                      [] OTHER -> DIABETIC_SEVERITY.SAFE
    IN  Returned([risk |-> risk, score |-> riskScore,
                  recommendation |-> Num(risk), severity |-> Num(severity)])

\* assessDiabeticRisk(nutrition, isDiabetic = false); isDiabetic left out is
\* Undefined
assessDiabeticRisk(nutrition, isDiabetic) ==
    IF ~DefaultTo(isDiabetic, FALSE)
    THEN Returned([risk |-> "not_applicable", score |-> 0,
                   recommendation |-> Undefined, severity |-> Undefined])
    ELSE IF IsNullish(nutrition) THEN Threw("TypeError")
    ELSE
    LET sugar == OrZero(PropsOf(nutrition).sugar)
        fat == OrZero(PropsOf(nutrition).fat)
        riskScore ==
            (IF sugar > 200 THEN 50 ELSE IF sugar > 150 THEN 35
             ELSE IF sugar > 100 THEN 20 ELSE IF sugar > 50 THEN 10 ELSE 0)
            + (IF fat > 300 THEN 20 ELSE IF fat > 200 THEN 10 ELSE 0)
            + (IF sugar > 100 /\ fat > 200 THEN 20 ELSE 0)
        risk == IF riskScore >= 70 THEN "critical"
                ELSE IF riskScore >= 40 THEN "high"
                ELSE IF riskScore >= 20 THEN "moderate"
                ELSE IF riskScore >= 10 THEN "low"
                ELSE "safe"
        severity == CASE risk = "critical" -> DIABETIC_SEVERITY.CRITICAL
                      [] risk = "high" -> DIABETIC_SEVERITY.HIGH
                      [] risk = "moderate" -> DIABETIC_SEVERITY.MODERATE
                      [] risk = "low" -> DIABETIC_SEVERITY.LOW
                      [] OTHER -> DIABETIC_SEVERITY.SAFE
    IN  Returned([risk |-> risk, score |-> riskScore,
                  recommendation |-> Num(risk), severity |-> Num(severity)])

----------------------------------------------------------------------------
(* A session: the engines called one after another by one caller *)

\* the engines whose result carries the time of the call
Timestamped == {"calculateHealthScore", "evaluateFoodForPopulation"}

\* a call of the session: the engine and its arguments
SessionCall(engine, nutrition, options, targetGroup, productData) ==
    [engine |-> engine, nutrition |-> nutrition, options |-> options,
     targetGroup |-> targetGroup, productData |-> productData]

\* a record with high sugar and fat (score in the band whose recommendation
\* sorts the penalties) and a record with one nutrient only
SweetFatty ==
    Object([NoNutrients EXCEPT !.calories = Num(350), !.sugar = Num(151),
                               !.fat = Num(201), !.salt = Num(40),
                               !.protein = Num(30)])

FiberOnly == Object([NoNutrients EXCEPT !.fiber = Num(50)])

DiabeticFemale == Options(Num("female"), Num(TRUE), Undefined, Undefined, Undefined)

\* the calls a session makes, in no fixed order and any number of times
SessionCalls ==
    << SessionCall("calculateHealthScore", SweetFatty, DiabeticFemale, "", Undefined),
       SessionCall("calculateHealthScore", SweetFatty, Undefined, "", Undefined),
       SessionCall("calculateAllDailyValues", SweetFatty, DiabeticFemale, "", Undefined),
       SessionCall("generateDiabeticWarnings", SweetFatty, DiabeticFemale, "", Undefined),
       SessionCall("assessDiabeticRisk", SweetFatty, Num(TRUE), "", Undefined),
       SessionCall("evaluateFoodForPopulation", SweetFatty, Undefined, "pregnant",
                   ProductData(Num(CocoaPalmOil), Undefined, Undefined, Undefined)),
       SessionCall("evaluateFoodForPopulation", FiberOnly, Undefined, "child",
                   ProductData(Num(CocoaPalmOil), Undefined, Undefined, Undefined)) >>

\* a numeric field of the result taken from the clock
EngineOutcome_clocked(c, time) ==
    CASE c.engine = "calculateHealthScore" ->
            calculateHealthScore(c.nutrition, c.options)
      [] c.engine = "calculateAllDailyValues" ->
            calculateAllDailyValues(c.nutrition, c.options)
      [] c.engine = "generateDiabeticWarnings" ->
            generateDiabeticWarnings(c.nutrition, c.options)
      [] c.engine = "assessDiabeticRisk" ->
            LET r == assessDiabeticRisk(c.nutrition, c.options)
            IN  Returned([r.value EXCEPT !.score = @ + time])
      [] c.engine = "evaluateFoodForPopulation" ->
            evaluateFoodForPopulation(c.nutrition, c.targetGroup, c.productData)

\* what the engine of a call computes: the arguments are all it reads
EngineOutcome(c, time) ==
    CASE c.engine = "calculateHealthScore" ->
            calculateHealthScore(c.nutrition, c.options)
      [] c.engine = "calculateAllDailyValues" ->
            calculateAllDailyValues(c.nutrition, c.options)
      [] c.engine = "generateDiabeticWarnings" ->
            generateDiabeticWarnings(c.nutrition, c.options)
      [] c.engine = "assessDiabeticRisk" ->
            assessDiabeticRisk(c.nutrition, c.options)
      [] c.engine = "evaluateFoodForPopulation" ->
            evaluateFoodForPopulation(c.nutrition, c.targetGroup, c.productData)

\* the result as the caller sees it: the outcome, and the time of the call in
\* metadata.timestamp or metadata.evaluationDate
SessionResult(c, time) ==
    [outcome |-> EngineOutcome(c, time),
     timestamp |-> IF c.engine \in Timestamped THEN Num(time) ELSE Undefined]

\* the clock of a session is observed at most MaxSessionTicks steps after its start
MaxSessionTicks == 2

InitSession ==
    /\ fn = "session"
    /\ args = [index |-> 0]
    /\ result = Pending
    /\ apiCache = << >>
    /\ now = 0
    /\ call = [pc |-> "idle", first |-> << >>, since |-> 0]
    /\ state = NoScans

\* the caller makes call i; call.first keeps the outcome of the first time a
\* call was made, call.since the time of the latest call made for the first time
CallEngine(i) ==
    /\ fn = "session"
    /\ args' = [index |-> i]
    /\ result' = Returned(SessionResult(SessionCalls[i], now))
    /\ call' = IF i \in DOMAIN call.first THEN call
               ELSE [call EXCEPT !.since = now,
                                 !.first =
                        [k \in DOMAIN call.first \cup {i} |->
                            IF k = i THEN SessionResult(SessionCalls[i], now).outcome
                            ELSE call.first[k]]]
    /\ UNCHANGED <<state, fn, apiCache, now>>

SessionCallEngine == \E i \in 1..Len(SessionCalls) : CallEngine(i)

\* time passes between two calls
SessionClock ==
    /\ fn = "session"
    /\ now < MaxSessionTicks * ClockStep
    /\ now' = now + ClockStep
    /\ UNCHANGED <<state, fn, args, result, apiCache, call>>

SpecSession == InitSession /\ [][SessionCallEngine \/ SessionClock]_vars

\* records on both sides of each penalty threshold: 200 kcal, 5 g sugar,
\* 10 g fat, 0.3 g salt
ThresholdObjects ==
    {Object(ScoredRecord(c, su, f, sa, p, fi)) :
        c \in {Undefined, Num(-50), Num(200), Num(201), Num(350)},
        su \in {Undefined, Num(-10), Num(50), Num(51)},
        f \in {Undefined, Num(100), Num(101)},
        sa \in {Undefined, Num(30), Num(31)},
        p \in {Undefined, Num(80)},
        fi \in {Undefined, Num(50)}}

InitThreshold ==
    /\ fn = "calculateHealthScore"
    /\ args \in [nutrition : ThresholdObjects, options : ScoreOptionsValues]
    /\ result = Pending
    /\ NoFetch

SpecThreshold == InitThreshold /\ [][CallHealthScore]_vars

----------------------------------------------------------------------------
(* Maternal and child engine: evaluateFoodSuitability *)

\* maternal-child-nutrition.js declares function evaluateFoodSuitability twice
\* at the top level (line 100 and line 914). Function declarations are hoisted
\* and the later one replaces the earlier, so every call, the calls of
\* runMaternalChildAnalysis and the exports included, runs the declaration of
\* line 914, which is the one modelled here.

\* a nutrition record as this engine reads it (sugar, protein, fiber in tenths
\* of a gram, salt in hundredths, caffeine, calcium, iron in mg, vitaminA in mcg)
NoSuitabilityNutrients ==
    [sugar |-> Undefined, salt |-> Undefined, caffeine |-> Undefined,
     vitaminA |-> Undefined, calcium |-> Undefined, iron |-> Undefined,
     protein |-> Undefined, fiber |-> Undefined]

CaffeineWords == << <<"c", "a", "f", "f", "e", "i", "n", "e">>, <<"c", "o", "f", "f", "e", "e">> >>

ChildCaffeineWords == << <<"c", "a", "f", "f", "e", "i", "n", "e">>, <<"c", "o", "f", "f", "e", "e">>, <<"c", "o", "l", "a">> >>

SweetenerWords == << <<"a", "s", "p", "a", "r", "t", "a", "m", "e">>, <<"s", "u", "c", "r", "a", "l", "o", "s", "e">>, <<"a", "c", "e", "s", "u", "l", "f", "a", "m", "e">> >>

\* words.some(w => text.toLowerCase().includes(w))
containsAny(text, words) ==
    \E k \in 1..Len(words) : Includes(ToLowerCase(text), words[k])

\* the score after the rules of a context, before the clamp; a context that is
\* neither baby_under_6 nor pregnant runs no rule
SuitabilityRules(n, context, ingredients) ==
    IF context = "baby_under_6"
    THEN LET afterSugar == 100 - (IF n.sugar > 20 THEN 40 ELSE 0)
             afterSalt == afterSugar - (IF n.salt > 20 THEN 40 ELSE 0)
             caffeine == n.caffeine > 0 \/ containsAny(ingredients, ChildCaffeineWords)
             sweetener == containsAny(ingredients, SweetenerWords)
             afterZero == IF caffeine \/ sweetener THEN 0 ELSE afterSalt
         IN  [score |-> afterZero + (IF n.protein >= 50 THEN 5 ELSE 0)
                          + (IF n.calcium > 0 THEN 5 ELSE 0)
                          + (IF n.iron > 0 THEN 5 ELSE 0),
              warnings |->
                  (IF n.sugar > 20 THEN <<"High sugar">> ELSE << >>)
                  \o (IF n.salt > 20 THEN <<"Salt content">> ELSE << >>)
                  \o (IF caffeine THEN <<"Caffeine is unsafe">> ELSE << >>)
                  \o (IF sweetener THEN <<"Artificial sweeteners">> ELSE << >>)]
    ELSE IF context = "pregnant"
    THEN LET caffeine == n.caffeine > 0 \/ containsAny(ingredients, CaffeineWords)
         IN  [score |-> 100 - (IF n.vitaminA > 800 THEN 40 ELSE 0)
                          - (IF caffeine THEN 30 ELSE 0)
                          - (IF n.sugar > 50 THEN 15 ELSE 0)
                          - (IF n.salt > 30 THEN 15 ELSE 0)
                          + (IF n.iron > 0 THEN 10 ELSE 0)
                          + (IF n.calcium > 0 THEN 10 ELSE 0)
                          + (IF n.protein >= 80 THEN 10 ELSE 0)
                          + (IF n.fiber >= 50 THEN 5 ELSE 0),
              warnings |->
                  (IF n.vitaminA > 800 THEN <<"High vitamin A">> ELSE << >>)
                  \o (IF caffeine THEN <<"Caffeine intake">> ELSE << >>)
                  \o (IF n.sugar > 50 THEN <<"High sugar content">> ELSE << >>)
                  \o (IF n.salt > 30 THEN <<"High sodium">> ELSE << >>)]
    ELSE [score |-> 100, warnings |-> << >>]

\* createInsufficientDataResponse(context): score null
createInsufficientDataResponse(context) ==
    [score |-> Undefined, status |-> "Unknown", label |-> "Insufficient Data",
     warnings |-> <<"Insufficient nutritional data for analysis">>]

\* evaluateFoodSuitability(nutrition = {}, context = 'pregnant', meta = {}),
\* called with a context string; meta is meta.ingredients, a text or Undefined
evaluateFoodSuitability(nutrition, context, meta) ==
    IF nutrition.type = "null" THEN Threw("TypeError")
    ELSE
    LET n == [f \in DOMAIN nutrition.rec |-> OrZero(nutrition.rec[f])]
        rules == SuitabilityRules(n, context, OrEmpty(meta))
        score == Max(0, Min(100, rules.score))
    IN  Returned([score |-> Num(score),
                  status |-> IF score >= 80 THEN "Safe"
                             ELSE IF score >= 50 THEN "Caution" ELSE "Avoid",
                  label |-> IF score >= 80 THEN "Generally suitable"
                            ELSE IF score >= 50 THEN "Consume with caution"
                            ELSE "Not recommended",
                  warnings |-> rules.warnings])

SuitabilityObjects ==
    {Object([NoSuitabilityNutrients EXCEPT !.sugar = su, !.salt = sa,
                                           !.caffeine = x[1], !.vitaminA = x[2],
                                           !.iron = x[3], !.calcium = x[4],
                                           !.protein = p, !.fiber = fi]) :
        su \in {Undefined, Num(20), Num(21), Num(51)},
        sa \in {Undefined, Num(20), Num(31)},
        p \in {Undefined, Num(50), Num(80)},
        fi \in {Undefined, Num(50)},
        x \in {<<Undefined, Undefined, Undefined, Undefined>>,
               <<Num(30), Undefined, Num(2), Undefined>>,
               <<Undefined, Num(801), Num(2), Num(120)>>}}

\* null, left out, and a number in the place of the nutrition object
SuitabilityNonObjects ==
    {[type |-> t, rec |-> NoSuitabilityNutrients] : t \in {"null", "undefined", "number"}}

\* the contexts the engine knows and other values
SuitabilityContexts == {"pregnant", "baby_under_6", "child", "adult", ""}

InitSuitability ==
    /\ fn = "evaluateFoodSuitability"
    /\ args \in [nutrition : SuitabilityObjects \cup SuitabilityNonObjects,
                 context : SuitabilityContexts,
                 meta : {Undefined, Num(OatWater), Num(Coffee), Num(Aspartame)}]
    /\ result = Pending
    /\ NoFetch

CallFoodSuitability ==
    /\ fn = "evaluateFoodSuitability"
    /\ result = Pending
    /\ result' = evaluateFoodSuitability(args.nutrition, args.context, args.meta)
    /\ UNCHANGED <<state, fn, args, apiCache, now, call>>

SpecSuitability == InitSuitability /\ [][CallFoodSuitability]_vars

----------------------------------------------------------------------------
(* Calls of assessDiabeticRisk *)

\* the largest sugar and fat values given to assessDiabeticRisk (tenths of g)
MaxRiskSugar == 215

MaxRiskFat == 310

\* every sugar and fat value from a few negative ones up to the largest
RiskObjects ==
    {Object([NoNutrients EXCEPT !.sugar = Num(su), !.fat = Num(f)]) :
        su \in (0 - 3)..MaxRiskSugar, f \in (0 - 3)..MaxRiskFat}

\* a record without sugar or fat, and one past every threshold
RiskSamples ==
    {Object(NoNutrients),
     Object([NoNutrients EXCEPT !.sugar = Num(201), !.fat = Num(301)])}

InitRisk ==
    /\ fn = "assessDiabeticRisk"
    /\ \/ args \in [nutrition : RiskObjects, isDiabetic : {Num(TRUE)}]
       \/ args \in [nutrition : RiskSamples \cup NonObjects,
                    isDiabetic : {Undefined, Num(FALSE), Num(TRUE)}]
    /\ result = Pending
    /\ NoFetch

CallAssessRisk ==
    /\ fn = "assessDiabeticRisk"
    /\ result = Pending
    /\ result' = assessDiabeticRisk(args.nutrition, args.isDiabetic)
    /\ UNCHANGED <<state, fn, args, apiCache, now, call>>

SpecRisk == InitRisk /\ [][CallAssessRisk]_vars

\* records whose sugar makes the diabetic factor count, with every option
AllScoreOptions ==
    {Undefined} \cup
    {Options(g, d, Undefined, a, Undefined) :
        g \in {Undefined, Num("male"), Num("female"), Num("other")},
        d \in {Undefined, Num(TRUE), Num(FALSE)},
        a \in {Undefined, Num("sedentary"), Num("moderate"), Num("active")}}

OptionObjects ==
    {Object(ScoredRecord(c, su, f, sa, p, fi)) :
        c \in {Undefined, Num(350), Num(500)},
        su \in {Undefined, Num(51), Num(80), Num(151), Num(300)},
        f \in {Undefined, Num(201)},
        sa \in {Undefined, Num(250)},
        p \in {Undefined, Num(100)},
        fi \in {Undefined, Num(50)}}

InitOptions ==
    /\ fn = "calculateHealthScore"
    /\ args \in [nutrition : OptionObjects, options : AllScoreOptions]
    /\ result = Pending
    /\ NoFetch

SpecOptions == InitOptions /\ [][CallHealthScore]_vars

----------------------------------------------------------------------------
(* The scan history of app.js *)

\* "Keep only last 50"
HistoryLimit == 50

\* the largest number of additions to the history in one run, and of scans
\* in flight at a time
MaxAdds == 2

MaxScans == 1

\* calculateHealthScore as app.js declares it (one parameter; calories in
\* kcal, sugar, fat, protein, fiber in tenths of g, salt in hundredths, the
\* score in thousandths before rounding); a property read of a nullish
\* nutrition throws
calculateHealthScoreOfApp(nutrition) ==
    IF IsNullish(nutrition) THEN Threw("TypeError")
    ELSE
    LET n == PropsOf(nutrition)
        above(x, limit) == x # Undefined /\ x[1] > limit
        atLeast(x, limit) == x # Undefined /\ x[1] >= limit
        raw == 100000
               - (IF above(n.calories, 200)
                  THEN Min(30000, (n.calories[1] - 200) * 200) ELSE 0)
               - (IF above(n.sugar, 50)
                  THEN Min(25000, (n.sugar[1] - 50) * 300) ELSE 0)
               - (IF above(n.fat, 100)
                  THEN Min(20000, (n.fat[1] - 100) * 200) ELSE 0)
               - (IF above(n.salt, 30)
                  THEN Min(15000, (n.salt[1] - 30) * 200) ELSE 0)
               + (IF atLeast(n.protein, 80)
                  THEN Min(10000, n.protein[1] * 100) ELSE 0)
               + (IF atLeast(n.fiber, 50)
                  THEN Min(10000, n.fiber[1] * 200) ELSE 0)
        score == ClampScore(raw)
    IN  Returned([score |-> score,
                  grade |-> IF score >= 90 THEN "A+"
                            ELSE IF score >= 80 THEN "A"
                            ELSE IF score >= 70 THEN "B"
                            ELSE IF score >= 60 THEN "C"
                            ELSE IF score >= 40 THEN "D" ELSE "F"])

\* the scripts that declare a global calculateHealthScore; the one loaded
\* last is the one addToHistory calls
ScoreScripts == {"app.js", "health-score-engine.js"}

LoadedHealthScore(script, nutrition) ==
    IF script = "app.js" THEN calculateHealthScoreOfApp(nutrition)
    ELSE calculateHealthScore(nutrition, Undefined)

\* a product as parseProductData returns it: every nutrient a number
AppProduct(barcode, calories, sugar, fat, salt, protein, fiber) ==
    [barcode |-> barcode,
     nutrition |-> Object(ScoredRecord(Num(calories), Num(sugar), Num(fat),
                                       Num(salt), Num(protein), Num(fiber)))]

Crisps == AppProduct("50000001", 520, 20, 300, 150, 60, 40)

Lentils == AppProduct("50000002", 116, 18, 4, 1, 90, 79)

\* a product scanned before the run, no longer in the database
Discontinued == AppProduct("50000000", 250, 60, 80, 50, 30, 10)

\* the products the database knows
AppCatalogue == {Crisps, Lentils}

\* a product object without nutrition, handed to addToHistory directly
Unlabelled ==
    [barcode |-> "50000009", nutrition |-> [type |-> "undefined", rec |-> NoNutrients]]

\* the barcodes given to scanProduct: none, too short, known, unknown
ScanBarcodes == {"", "1234567", "50000001", "50000002", "50000003"}

\* barcode.length
BarcodeLength(barcode) ==
    CASE barcode = "" -> 0 [] barcode = "1234567" -> 7 [] OTHER -> 8

\* { ...product, score, grade, timestamp }; seq numbers the additions in the
\* order they were made and is kept for the properties only
HistoryItem(product, healthData, timestamp, seq) ==
    [barcode |-> product.barcode, nutrition |-> product.nutrition,
     score |-> healthData.score, grade |-> healthData.grade,
     timestamp |-> timestamp, seq |-> seq]

\* addToHistory keeping the last 50 of the list past the limit, so that the
\* entry just added is the one dropped
addToHistory_keepingOldest(scanHistory, product, script, timestamp, seq) ==
    LET healthData == LoadedHealthScore(script, product.nutrition)
        unshifted == <<HistoryItem(product, healthData.value, timestamp, seq)>>
                     \o scanHistory
    IN  IF healthData.threw THEN scanHistory
        ELSE IF Len(unshifted) > HistoryLimit
        THEN SubSeq(unshifted, 2, HistoryLimit + 1)
        ELSE unshifted

\* addToHistory(product): the scanHistory it leaves; unchanged when
\* calculateHealthScore throws before the unshift
addToHistory(scanHistory, product, script, timestamp, seq) ==
    LET healthData == LoadedHealthScore(script, product.nutrition)
        unshifted == <<HistoryItem(product, healthData.value, timestamp, seq)>>
                     \o scanHistory
    IN  IF healthData.threw THEN scanHistory
        ELSE IF Len(unshifted) > HistoryLimit
        THEN SubSeq(unshifted, 1, HistoryLimit)
        ELSE unshifted

\* a history of n entries made before the run, the most recent first, the
\* oldest one a product the database still knows
EarlierHistory(n, script) ==
    [i \in 1..n |->
        LET product == IF i = n THEN Crisps ELSE Discontinued
        IN  HistoryItem(product, LoadedHealthScore(script, product.nutrition).value,
                        0, 0 - i)]

\* the lengths of the history before the run: empty, one entry, and the
\* lengths from which the run can fill it
EarlierLengths == {0, 1} \cup (HistoryLimit - MaxAdds)..HistoryLimit

InitHistory ==
    /\ fn = "app"
    /\ args = [op |-> "load"]
    /\ result = Returned("loaded")
    /\ apiCache = << >>
    /\ now = 0
    /\ \E script \in ScoreScripts, n \in EarlierLengths :
          /\ call = [pc |-> "idle", script |-> script, added |-> 0]
          /\ state = [NoScans EXCEPT !.scanHistory = EarlierHistory(n, script)]

\* the run may add another entry
MayAdd == call.added < MaxAdds

\* scanProduct(barcode) up to the await of the fetch
ScanProduct(barcode) ==
    /\ fn = "app"
    /\ args' = [op |-> "scanProduct"]
    /\ IF barcode = "" \/ BarcodeLength(barcode) < 8
       THEN /\ result' = Returned("Please enter a valid barcode")
            /\ UNCHANGED state
       ELSE /\ Cardinality(state.scanning) < MaxScans
            /\ [barcode |-> barcode, pc |-> "fetch"] \notin state.scanning
            /\ result' = Returned("loading")
            /\ state' = [state EXCEPT !.scanning =
                             @ \cup {[barcode |-> barcode, pc |-> "fetch"]}]
    /\ UNCHANGED <<fn, apiCache, now, call>>

\* fetchProductFromAPI answers: the product becomes the current one and is
\* displayed, or the error is caught and shown
ScanFetched(scan, ok) ==
    /\ fn = "app"
    /\ scan \in state.scanning
    /\ scan.pc = "fetch"
    /\ args' = [op |-> "scanProduct"]
    /\ IF ok /\ \E p \in AppCatalogue : p.barcode = scan.barcode
       THEN LET product == CHOOSE p \in AppCatalogue : p.barcode = scan.barcode
            IN  /\ state' = [state EXCEPT
                                !.currentProduct = Num(product),
                                !.scanning = (@ \ {scan})
                                    \cup {[barcode |-> scan.barcode, pc |-> "display"]}]
                /\ result' = Returned("displaying")
       ELSE /\ state' = [state EXCEPT !.scanning = @ \ {scan}]
            /\ result' = Returned(IF ok THEN "Product not found in database"
                                  ELSE "API Error")
    /\ UNCHANGED <<fn, apiCache, now, call>>

\* updateScanStats(): the scan counted, and counted as a healthy choice when
\* the current product scores 70 or more
updateScanStats(st, script) ==
    LET healthy == st.currentProduct # Undefined
                   /\ LoadedHealthScore(script, st.currentProduct[1].nutrition)
                          .value.score >= 70
    IN  [st EXCEPT !.totalScans = @ + 1,
                   !.healthyChoices = IF healthy THEN @ + 1 ELSE @]

\* displayProduct is done: addToHistory(product), updateScanStats()
ScanDisplayed(scan) ==
    /\ fn = "app"
    /\ scan \in state.scanning
    /\ scan.pc = "display"
    /\ LET product == CHOOSE p \in AppCatalogue : p.barcode = scan.barcode
       IN  /\ MayAdd
           /\ state' = updateScanStats(
                           [state EXCEPT
                               !.scanHistory = addToHistory(@, product, call.script,
                                                            now, call.added + 1),
                               !.scanning = @ \ {scan}],
                           call.script)
    /\ call' = [call EXCEPT !.added = @ + 1]
    /\ args' = [op |-> "scanProduct"]
    /\ result' = Returned("scanned")
    /\ UNCHANGED <<fn, apiCache, now>>

\* saveProduct(): the current product is added unless its barcode is in the
\* history
SaveProduct ==
    /\ fn = "app"
    /\ args' = [op |-> "saveProduct"]
    /\ IF state.currentProduct = Undefined
       THEN /\ result' = Returned("nothing to save")
            /\ UNCHANGED <<state, call>>
       ELSE IF \E i \in 1..Len(state.scanHistory) :
                   state.scanHistory[i].barcode = state.currentProduct[1].barcode
       THEN /\ result' = Returned("Product already in history")
            /\ UNCHANGED <<state, call>>
       ELSE /\ MayAdd
            /\ state' = [state EXCEPT
                            !.scanHistory = addToHistory(@, state.currentProduct[1],
                                                call.script, now, call.added + 1)]
            /\ call' = [call EXCEPT !.added = @ + 1]
            /\ result' = Returned("Product saved to history!")
    /\ UNCHANGED <<fn, apiCache, now>>

\* addToHistory(product) called with a product object
AddToHistory(product) ==
    /\ fn = "app"
    /\ args' = [op |-> "addToHistory"]
    /\ IF LoadedHealthScore(call.script, product.nutrition).threw
       THEN /\ result' = Threw("TypeError")
            /\ UNCHANGED <<state, call>>
       ELSE /\ MayAdd
            /\ state' = [state EXCEPT
                            !.scanHistory = addToHistory(@, product, call.script,
                                                         now, call.added + 1)]
            /\ call' = [call EXCEPT !.added = @ + 1]
            /\ result' = Returned("added")
    /\ UNCHANGED <<fn, apiCache, now>>

ScanProductStarts == \E barcode \in ScanBarcodes : ScanProduct(barcode)

ScanProductFetched ==
    \E scan \in state.scanning, ok \in BOOLEAN : ScanFetched(scan, ok)

ScanProductDisplayed == \E scan \in state.scanning : ScanDisplayed(scan)

AddToHistoryCalled ==
    \E product \in AppCatalogue \cup {Unlabelled} : AddToHistory(product)

SpecHistory ==
    InitHistory /\ [][ScanProductStarts \/ ScanProductFetched
                      \/ ScanProductDisplayed \/ SaveProduct
                      \/ AddToHistoryCalled]_vars

----------------------------------------------------------------------------
(* Properties of the health score engine *)

ScoreReturned ==
    fn = "calculateHealthScore" /\ result # Pending /\ ~result.threw

GradeRank(grade) ==
    CASE grade = "F" -> 0 [] grade = "D" -> 1 [] grade = "C" -> 2
      [] grade = "B" -> 3 [] grade = "A" -> 4 [] grade = "A+" -> 5

\* C1: for every nutrition record (negative, zero, undefined or extreme field
\* values) and every options value, calculateHealthScore returns an integer
\* score with 0 <= score <= 100.
C1_ScoreWithinBounds ==
    (fn = "calculateHealthScore" /\ result # Pending
        /\ args.nutrition.type = "object")
    => (~result.threw /\ result.value.score \in 0..100)

\* the all-maximal record was scored and the penalties took the score to 0
C1_Witness ==
    /\ ScoreReturned
    /\ args.nutrition.rec.calories = Num(MaxCalories)
    /\ args.nutrition.rec.sugar = Num(MaxSugar)
    /\ args.nutrition.rec.fat = Num(MaxFat)
    /\ args.nutrition.rec.salt = Num(MaxSalt)
    /\ result.value.metadata.totalPenalties = 100000
    /\ result.value.score = 0

----------------------------------------------------------------------------
(* Properties of the diabetic warning engine *)

WarningsReturned ==
    fn = "generateDiabeticWarnings" /\ result # Pending /\ ~result.threw

\* the isDiabetic option as the call was given it: true, or false / not given
GivenDiabetic ==
    /\ args.options # Undefined
    /\ args.options[1].isDiabetic = Num(TRUE)

\* C3: generateDiabeticWarnings returns an empty list for every nutrition
\* argument whenever isDiabetic is false or not given, whatever the
\* diabeticType.
C3_NonDiabeticEmpty ==
    (fn = "generateDiabeticWarnings" /\ result # Pending /\ ~GivenDiabetic)
    => (~result.threw /\ result.value = << >>)

\* a high-sugar, high-fat record of a type-1 user with isDiabetic false got
\* the empty list
C3_Witness ==
    /\ WarningsReturned
    /\ args.options # Undefined
    /\ args.options[1].isDiabetic = Num(FALSE)
    /\ args.options[1].diabeticType = Num("type1")
    /\ args.nutrition.rec.sugar = Num(300)
    /\ args.nutrition.rec.fat = Num(201)
    /\ result.value = << >>

\* C4: for a diabetic user the returned list is sorted ascending by priority:
\* warnings[i].priority <= warnings[i+1].priority for every adjacent pair.
C4_SortedByPriority ==
    (WarningsReturned /\ GivenDiabetic) =>
        \A i \in 1..(Len(result.value) - 1) :
            result.value[i].priority <= result.value[i + 1].priority

\* a list of at least three entries whose rules fired out of priority order
\* (a High sugar entry pushed before the Critical combination entry)
C4_Witness ==
    /\ WarningsReturned
    /\ GivenDiabetic
    /\ Len(result.value) >= 3
    /\ result.value[1].type = "combination_danger"
    /\ result.value[2].type = "sugar_high"
    /\ result.value # CollectedWarnings(
           DiabeticNutrients(args.nutrition.rec),
           DefaultTo(args.options[1].diabeticType, "type2"))

----------------------------------------------------------------------------
(* Properties of the score and daily value engines on a missing argument *)

\* the nutrition record whose six nutrients are all 0
ZeroRecord == Object(ScoredRecord(Num(0), Num(0), Num(0), Num(0), Num(0), Num(0)))

\* C7: calculateHealthScore and calculateAllDailyValues called with a missing
\* nutrition argument (null or undefined) do not raise an error: they return
\* the result they return for the all-zero nutrition record.
C7_MissingNutritionAsZero ==
    (fn \in {"calculateHealthScore", "calculateAllDailyValues"}
        /\ result # Pending /\ IsNullish(args.nutrition))
    => /\ ~result.threw
       /\ result = (IF fn = "calculateHealthScore"
                    THEN calculateHealthScore(ZeroRecord, args.options)
                    ELSE calculateAllDailyValues(ZeroRecord, args.options))

----------------------------------------------------------------------------
(* Properties of the daily value engine *)

DailyValueReturned ==
    fn = "calculateDailyValue" /\ result # Pending /\ ~result.threw

\* Low < Moderate < High < Excellent for protein and fiber,
\* Very Low < Low < Moderate < High < Very High for the nutrients to limit
CategoryRank(nutrient, category) ==
    IF nutrient \in PositiveNutrients
    THEN CASE category = "Low" -> 0 [] category = "Moderate" -> 1
           [] category = "High" -> 2 [] category = "Excellent" -> 3
    ELSE CASE category = "Very Low" -> 0 [] category = "Low" -> 1
           [] category = "Moderate" -> 2 [] category = "High" -> 3
           [] category = "Very High" -> 4

\* C9: for a fixed reference profile the category of a nutrient never moves
\* the wrong way as its value grows: the rank (Low < Moderate < High <
\* Excellent at 10/20/40 percent for protein and fiber, Very Low < Low <
\* Moderate < High < Very High at 5/15/30/50 percent for sugar, fat, salt and
\* calories) at a value is never below the rank at the next smaller value.
C9_CategoryMonotone ==
    DailyValueReturned =>
        LET nutrient == args.nutrient
            pct == result.value.percentage
            rank == CategoryRank(nutrient, result.value.category)
        IN  /\ rank = (IF nutrient \in PositiveNutrients
                       THEN (IF pct >= 40 THEN 3 ELSE IF pct >= 20 THEN 2
                             ELSE IF pct >= 10 THEN 1 ELSE 0)
                       ELSE (IF pct >= 50 THEN 4 ELSE IF pct >= 30 THEN 3
                             ELSE IF pct >= 15 THEN 2 ELSE IF pct >= 5 THEN 1
                             ELSE 0))
            /\ (args.value - 1) \in DvValues =>
                 CategoryRank(nutrient,
                     calculateDailyValue(args.value - 1, nutrient,
                                         args.options).category) <= rank

\* a protein value at which the category has just stepped up from Moderate to
\* High: one unit less is still Moderate
C9_Witness ==
    /\ DailyValueReturned
    /\ args.nutrient = "protein"
    /\ result.value.category = "High"
    /\ calculateDailyValue(args.value - 1, "protein", args.options).category
           = "Moderate"


----------------------------------------------------------------------------
(* Properties of the population safety engine *)

EvaluationReturned ==
    fn = "evaluateFoodForPopulation" /\ result # Pending /\ ~result.threw

\* the call passes the validation: nutrition is an object, the group is known
WellFormedCall ==
    args.nutrition.type = "object" /\ args.targetGroup \in {"pregnant", "child"}

\* the ingredients text or the name of the product of the call contains, case
\* aside, a term of the denylist of the group of the call
DenylistHit ==
    LET product == ProductDataOf(args.productData)
        denylist == IF args.targetGroup = "pregnant" THEN PregnantAvoidIngredients
                    ELSE ChildStrictlyAvoided
    IN  \E k \in 1..Len(denylist) :
            \/ Includes(ToLowerCase(OrEmpty(product.ingredients)), denylist[k])
            \/ Includes(ToLowerCase(OrEmpty(product.name)), denylist[k])

\* C5: for target group pregnant or child and a well-formed nutrition record,
\* if the ingredients text or the name contains (case-insensitively, as a
\* substring) a term of the group's denylist, the result is Avoid with
\* severityScore 100, exactly one warning (the denylist message) and no
\* positives, whatever the nutrient values.
C5_DenylistShortCircuit ==
    (EvaluationReturned /\ WellFormedCall /\ DenylistHit) =>
        /\ result.value.suitability = "Avoid"
        /\ result.value.severityScore = Num(100)
        /\ Len(result.value.warnings) = 1
        /\ result.value.warnings[1].text = "Contains - strictly not recommended"
        /\ result.value.positives = << >>

\* a child product whose name, not its ingredients, holds a denylisted term in
\* capitals, with nutrients that would otherwise gather no severity at all
C5_Witness ==
    /\ EvaluationReturned
    /\ args.targetGroup = "child"
    /\ args.productData = ProductData(Num(OatWater), Num(Popcorn), Undefined, Undefined)
    /\ Accumulated(args.nutrition.rec, "child",
                   [ProductDataOf(args.productData) EXCEPT !.name = Undefined]
                  ).severityScore = 0
    /\ result.value.suitability = "Avoid"

\* C6: the result is Insufficient Data with severityScore null whenever
\* nutrition is not an object or targetGroup is neither pregnant nor child,
\* and the same whatever the ingredients text, name and allergens are.
C6_InsufficientData ==
    (fn = "evaluateFoodForPopulation" /\ result # Pending /\ ~WellFormedCall) =>
        /\ ~result.threw
        /\ result.value =
             [suitability |-> "Insufficient Data",
              warnings |-> <<Message(
                  "Not enough nutrition information to evaluate safety", "", << >>)>>,
              positives |-> << >>,
              explanation |-> [category |-> "insufficient", positives |-> << >>,
                               warnings |-> << >>],
              severityScore |-> Undefined,
              targetGroup |-> args.targetGroup]

\* a null nutrition for the pregnant group with an ingredients text that is on
\* the denylist was answered with Insufficient Data
C6_Witness ==
    /\ EvaluationReturned
    /\ args.nutrition.type = "null"
    /\ args.targetGroup = "pregnant"
    /\ args.productData = ProductData(Num(ContainsAlcohol), Undefined, Undefined,
                                      Undefined)
    /\ result.value.suitability = "Insufficient Data"
    /\ result.value.severityScore = Undefined

\* C10: in every result that is neither Insufficient Data nor a denylist
\* short-circuit, suitability is Avoid exactly when severityScore >= 80,
\* Moderate exactly when 40 <= severityScore < 80, and Good Choice exactly
\* when severityScore < 40.
C10_SuitabilityLadder ==
    (EvaluationReturned /\ WellFormedCall /\ ~DenylistHit) =>
        LET severityScore == result.value.severityScore[1]
            suitability == result.value.suitability
        IN  /\ result.value.severityScore # Undefined
            /\ (suitability = "Avoid") = (severityScore >= 80)
            /\ (suitability = "Moderate") = (severityScore >= 40 /\ severityScore < 80)
            /\ (suitability = "Good Choice") = (severityScore < 40)

\* an evaluation that gathered exactly 80 (two High nutrients) and was
\* classified Avoid without any denylisted term
C10_Witness ==
    /\ EvaluationReturned
    /\ WellFormedCall
    /\ ~DenylistHit
    /\ result.value.severityScore = Num(80)
    /\ result.value.suitability = "Avoid"
    /\ Len(result.value.warnings) = 2



----------------------------------------------------------------------------
(* Properties of the product lookup *)

ProductReturned ==
    /\ fn = "fetchProductWithHealthScore"
    /\ call.pc = "idle"
    /\ ~result.threw
    /\ args.barcode # ""

\* C8: the healthScore, dailyValues and diabeticWarnings of the product a
\* fetchProductWithHealthScore call returns are the ones computed from the
\* product's nutrition for the options passed to that call, also when the
\* product comes from the cache filled by an earlier call.
C8_AnalysisForCallOptions ==
    ProductReturned =>
        LET product == result.value
            analysis == HealthAnalysis(product.nutrition, FetchOptionsOf(args.options))
        IN  /\ product.healthScore = analysis.healthScore
            /\ product.dailyValues = analysis.dailyValues
            /\ product.diabeticWarnings = analysis.diabeticWarnings


\* the foods the denylists are said to hold, as an ingredients text names them
NamedForPregnancy ==
    << <<"a", "l", "c", "o", "h", "o", "l">>,
       <<"r", "a", "w", " ", "f", "i", "s", "h">>,
       <<"c", "a", "f", "f", "e", "i", "n", "e">> >>

NamedForChildren ==
    << <<"h", "o", "n", "e", "y">>,
       <<"a", "s", "p", "a", "r", "t", "a", "m", "e">>,
       <<"p", "o", "p", "c", "o", "r", "n">>,
       <<"m", "a", "r", "s", "h", "m", "a", "l", "l", "o", "w">> >>

\* the ingredients text of the call names one of the foods said to be on the
\* denylist of the group of the call
NamesListedFood ==
    LET ingredients == ToLowerCase(OrEmpty(ProductDataOf(args.productData).ingredients))
        named == IF args.targetGroup = "pregnant" THEN NamedForPregnancy
                 ELSE NamedForChildren
    IN  \E k \in 1..Len(named) : Includes(ingredients, named[k])

\* C11: for target group pregnant the evaluation short-circuits to Avoid with
\* severityScore 100 when the ingredients text names alcohol, raw fish or
\* caffeine, and for target group child when it names honey, an artificial
\* sweetener or a choking-hazard food.
C11_NamedFoodsAvoided ==
    (EvaluationReturned /\ WellFormedCall /\ NamesListedFood) =>
        /\ result.value.suitability = "Avoid"
        /\ result.value.severityScore = Num(100)


----------------------------------------------------------------------------
(* Properties of a session *)

----------------------------------------------------------------------------
(* Properties of the diabetic warnings: the bands *)

\* the entries of the list that are about the sugar band
SugarEntries ==
    SelectSeq(result.value,
              LAMBDA w : w.type \in {"sugar_critical", "sugar_high", "sugar_moderate",
                                     "sugar_low", "sugar_safe"})

\* the severity level the claim gives a sugar value (tenths of a gram), or
\* "none" between 3 g and 5 g
SugarBand(sugar) ==
    IF sugar > 200 THEN "critical"
    ELSE IF sugar > 150 THEN "high"
    ELSE IF sugar > 100 THEN "moderate"
    ELSE IF sugar > 50 THEN "low"
    ELSE IF sugar <= 30 THEN "safe"
    ELSE "none"

----------------------------------------------------------------------------
(* Properties of the health score engine: the penalties list *)

\* calories, sugar, fat and salt of the record of the call are all within the
\* limits 200 kcal, 5 g, 10 g and 0.3 g (a field left out counts as 0)
WithinLimits ==
    /\ OrZero(args.nutrition.rec.calories) <= 200
    /\ OrZero(args.nutrition.rec.sugar) <= 50
    /\ OrZero(args.nutrition.rec.fat) <= 100
    /\ OrZero(args.nutrition.rec.salt) <= 30

----------------------------------------------------------------------------
(* Properties of the population safety engine: fields left out *)

\* the fields of a nutrition record the evaluation reads
EvaluatedFields ==
    {"sugar", "salt", "saturatedFat", "fat", "protein", "fiber", "calories", "caffeine"}

\* the evaluation of the record of the call with field f set to 0
WithZero(f) ==
    evaluateFoodForPopulation(
        Object([args.nutrition.rec EXCEPT ![f] = Num(0)]),
        args.targetGroup, args.productData).value

\* C15: for either target group, a record in which one of the fields sugar,
\* salt, saturatedFat, fat, protein, fiber, calories, caffeine is absent gets
\* the same suitability, severityScore and warnings as the same record with
\* that field set to 0.
C15_AbsentAsZero ==
    (EvaluationReturned /\ WellFormedCall) =>
        \A f \in EvaluatedFields :
            args.nutrition.rec[f] = Undefined =>
                /\ result.value.suitability = WithZero(f).suitability
                /\ result.value.severityScore = WithZero(f).severityScore
                /\ result.value.warnings = WithZero(f).warnings


----------------------------------------------------------------------------
(* Properties of the daily value engine: gender and negative values *)

AllDailyValuesReturned ==
    fn = "calculateAllDailyValues" /\ result # Pending /\ ~result.threw

\* the options of the call name a gender that is neither male nor female
UnrecognizedGender ==
    /\ args.options # Undefined
    /\ args.options[1].gender # Undefined
    /\ args.options[1].gender[1] \notin {"male", "female"}

\* C16: calculateAllDailyValues with a gender that is neither male nor female
\* returns the result for male: the same six entries and the same summary,
\* the summary's gender and genderSymbol included.
C16_UnknownGenderAsMale ==
    (AllDailyValuesReturned /\ UnrecognizedGender) =>
        result.value =
            calculateAllDailyValues(
                args.nutrition,
                Num([args.options[1] EXCEPT !.gender = Num("male")])).value


\* C17: calculateAllDailyValues treats a negative nutrient value as 0: the
\* entry for a negative value equals the entry for value 0, and no percentage
\* of the result, nor the averagePercentage, is negative.
C17_NegativeAsZero ==
    AllDailyValuesReturned =>
        /\ \A nutrient \in DOMAIN result.value.dailyValues :
              /\ result.value.dailyValues[nutrient].percentage >= 0
              /\ OrZero(args.nutrition.rec[nutrient]) < 0 =>
                    result.value.dailyValues[nutrient] =
                        calculateDailyValue(0, nutrient, args.options)
        /\ result.value.summary.averagePercentage >= 0


----------------------------------------------------------------------------
(* Properties of the health score engine: penalties and recommendation *)

\* the place of a rule in the order in which the rules are applied
RuleRank(type) ==
    CASE type = "calories" -> 1 [] type = "sugar" -> 2 [] type = "fat" -> 3
      [] type = "salt" -> 4 [] type = "combination" -> 5 [] type = "metabolic" -> 6

\* C18: the penalties list of the result holds the penalties in the order in
\* which the rules were applied (calories, sugar, fat, salt, sugar+fat
\* combination, metabolic) for every input: building the recommendation does
\* not reorder the list.
C18_PenaltiesInRuleOrder ==
    ScoreReturned =>
        \A i \in 1..(Len(result.value.penalties) - 1) :
            RuleRank(result.value.penalties[i].type)
                < RuleRank(result.value.penalties[i + 1].type)

\* the penalty of the result with the given type
PenaltyOf(type) ==
    LET i == CHOOSE i \in 1..Len(result.value.penalties) :
                 result.value.penalties[i].type = type
    IN  result.value.penalties[i].penalty

\* the types the recommendation text names
NamedIssues ==
    {result.value.recommendation.issues[i] :
        i \in 1..Len(result.value.recommendation.issues)}

PenaltyTypes ==
    {result.value.penalties[i].type : i \in 1..Len(result.value.penalties)}

\* C19: the recommendation text names the two largest-magnitude penalties for
\* every score from 55 to 84 (the only one if there is just one), and names
\* all penalties of magnitude above 10 for every score below 55.
C19_RecommendationNamesPenalties ==
    ScoreReturned =>
        IF result.value.score >= 85 THEN TRUE
        ELSE IF result.value.score >= 55
        THEN /\ NamedIssues \subseteq PenaltyTypes
             /\ Cardinality(NamedIssues) = Min(2, Cardinality(PenaltyTypes))
             /\ \A named \in NamedIssues : \A other \in PenaltyTypes \ NamedIssues :
                    PenaltyOf(named) >= PenaltyOf(other)
        ELSE NamedIssues = {type \in PenaltyTypes : PenaltyOf(type) > 10000}


----------------------------------------------------------------------------
(* Properties of the diabetic warnings: carbohydrates *)

\* C20: for a diabetic user the list contains the high-severity carbohydrate
\* entry exactly when the carbs value of the record exceeds 50 g; a record
\* whose carbs is 0 or absent never gets it, whatever its sugar value.
C20_CarbEntryFromCarbsOnly ==
    (WarningsReturned /\ GivenDiabetic) =>
        ((\E i \in 1..Len(result.value) :
              result.value[i].type = "carb_high" /\ result.value[i].level = "high")
         <=> OrZero(args.nutrition.rec.carbs) > 500)


----------------------------------------------------------------------------
(* Properties of the health score engine: caps, monotonicity, options *)

\* the cap of a penalty type, thousandths of a point
PenaltyCap(type) ==
    CASE type = "calories" -> 25000 [] type = "sugar" -> 30000
      [] type = "fat" -> 20000 [] type = "salt" -> 15000
      [] type = "combination" -> 5000 [] type = "metabolic" -> 5000

----------------------------------------------------------------------------
(* Properties of the population safety engine: the severity score *)

\* the fixed increment of the check that pushed a warning
IncrementOf(warning) ==
    IF warning.text = "Moderate" THEN 20
    ELSE IF warning.text = "High" THEN 40
    ELSE IF warning.about = "caffeine" THEN 50
    ELSE IF warning.about = "caution" THEN 10
    ELSE IF warning.about \in {"highlyProcessed", "lowProtein", "highCalories",
                               "artificialAdditives", "choking", "allergen",
                               "lowNutrients", "ultraProcessed"} THEN 15
    ELSE 0

RECURSIVE IncrementSum(_)
IncrementSum(warnings) ==
    IF warnings = << >> THEN 0
    ELSE IncrementOf(Head(warnings)) + IncrementSum(Tail(warnings))

\* severityScore is not negative and is the sum of the increments of the
\* checks whose warnings the result lists
SeverityIsSum ==
    /\ result.value.severityScore # Undefined
    /\ result.value.severityScore[1] >= 0
    /\ result.value.severityScore[1] = IncrementSum(result.value.warnings)

\* C22 as stated: in every result that is not Insufficient Data,
\* severityScore is never negative and equals the sum of the fixed increments
\* of the checks that triggered (0/20/40 per nutrient tier, 50 for the
\* pregnancy caffeine check, 15 per triggered warning trigger, 10 for caution
\* ingredients).
C22_SeverityIsSumOfIncrements ==
    (EvaluationReturned /\ result.value.suitability # "Insufficient Data") =>
        SeverityIsSum

\* C22 amended: the sum of the increments holds in every result that is
\* neither Insufficient Data nor a denylist short-circuit, whatever positives
\* were collected; a denylist short-circuit carries the fixed severityScore
\* 100, which no check accumulated.
C22_SeverityIsSumUnlessDenylisted ==
    (EvaluationReturned /\ WellFormedCall) =>
        IF DenylistHit THEN result.value.severityScore = Num(100)
        ELSE SeverityIsSum

\* a pregnant-group evaluation in which a nutrient tier, the caffeine check and
\* a warning trigger all added to the severity, with positives collected
C22_Witness ==
    /\ EvaluationReturned
    /\ WellFormedCall
    /\ ~DenylistHit
    /\ args.targetGroup = "pregnant"
    /\ result.value.positives # << >>
    /\ \E i \in 1..Len(result.value.warnings) :
          result.value.warnings[i].about = "caffeine"
    /\ \E i \in 1..Len(result.value.warnings) :
          result.value.warnings[i].text = "High"
    /\ \E i \in 1..Len(result.value.warnings) :
          result.value.warnings[i].about = "highCalories"
    /\ result.value.severityScore[1] >= 105


----------------------------------------------------------------------------
(* Properties of the product lookup: retries *)

\* the step ends the call in flight
CallEnds == call.pc = "request" /\ call'.pc = "idle"

\* the request of this step ends with 'product not found' or a timeout abort
NotRetryable ==
    \/ Request("abort")
    \/ Request("ok") /\ args.barcode \notin DOMAIN Catalogue

\* a call makes at most maxRetries attempts and its last attempt ends it with
\* a product or an error; 'product not found' and an abort end it at once
BoundedAttempts ==
    /\ call.pc = "request" => call.attempt \in 1..maxRetries
    /\ (call.pc = "request" /\ call.attempt = maxRetries /\ call' # call) =>
            (CallEnds /\ result'.error # "pending")
    /\ NotRetryable => (CallEnds /\ result'.threw)

\* the entry of the barcode of the call had expired when the call found it
ExpiredOnEntry ==
    /\ args.barcode \in DOMAIN call.entered
    /\ call.at - call.entered[args.barcode].timestamp > CACHE_DURATION

\* C23 as stated: one call makes at most maxRetries (3) fetch attempts and
\* then ends with a product or an error; an attempt that ends with 'product
\* not found' or with a timeout abort is not retried; a call that ends with an
\* error leaves the cache as it found it.
C23_BoundedRetriesCacheUntouched ==
    [][ /\ BoundedAttempts
        /\ (CallEnds /\ result'.threw) => apiCache' = call.entered
      ]_vars

\* C23 amended: the same bound on the attempts and the same two errors that
\* are not retried; a call that ends with an error leaves the cache as it
\* found it, except that an entry of its barcode that had expired is removed.
C23_BoundedRetriesExpiredDropped ==
    [][ /\ BoundedAttempts
        /\ (CallEnds /\ result'.threw) =>
              apiCache' = (IF ExpiredOnEntry
                           THEN CacheDelete(call.entered, args.barcode)
                           ELSE call.entered)
      ]_vars

\* a call that made all its attempts and ended with the error of a failed
\* request, while another product stayed in the cache
C23_Witness ==
    /\ fn = "fetchProductWithHealthScore"
    /\ call.pc = "idle"
    /\ result.threw
    /\ result.error = "HTTP"
    /\ args.barcode \in DOMAIN Catalogue
    /\ args.barcode \notin DOMAIN apiCache
    /\ apiCache # << >>


----------------------------------------------------------------------------
(* Properties of the maternal and child engine *)

\* C24: evaluateFoodSuitability returns the Insufficient Data response with
\* score null for every context other than 'pregnant' and 'baby_under_6'; it
\* never reports such a call as Safe.
C24_UnknownContextInsufficient ==
    (fn = "evaluateFoodSuitability" /\ result.error # "pending" /\ ~result.threw
     /\ args.context \notin {"pregnant", "baby_under_6"}) =>
        /\ result.value.score = Undefined
        /\ result.value.label = "Insufficient Data"
        /\ result.value.status # "Safe"


----------------------------------------------------------------------------
(* Properties of assessDiabeticRisk *)

\* the risk label of a score: critical from 70, high from 40, moderate from
\* 20, low from 10, safe below
RiskLabelOf(score) ==
    IF score >= 70 THEN "critical"
    ELSE IF score >= 40 THEN "high"
    ELSE IF score >= 20 THEN "moderate"
    ELSE IF score >= 10 THEN "low" ELSE "safe"

\* the risk score of a diabetic user for the given sugar and fat
RiskScoreAt(sugar, fat) ==
    assessDiabeticRisk(Object([NoNutrients EXCEPT !.sugar = Num(sugar),
                                                  !.fat = Num(fat)]),
                       Num(TRUE)).value.score

\* a call of assessDiabeticRisk for a diabetic user with a nutrition object
\* has returned
DiabeticRiskAssessed ==
    /\ fn = "assessDiabeticRisk"
    /\ result.error # "pending"
    /\ args.isDiabetic = Num(TRUE)
    /\ args.nutrition.type = "object"

\* C25: for a diabetic user assessDiabeticRisk returns a score within 0..100
\* for every sugar and fat value, with the label critical for a score >= 70,
\* high for >= 40, moderate for >= 20, low for >= 10 and safe below 10, and
\* the score never decreases when sugar or fat increases.
C25_RiskScoreBoundedLabelledMonotone ==
    DiabeticRiskAssessed =>
        LET sugar == OrZero(args.nutrition.rec.sugar)
            fat == OrZero(args.nutrition.rec.fat)
            score == result.value.score
        IN  /\ ~result.threw
            /\ score \in 0..100
            /\ result.value.risk = RiskLabelOf(score)
            /\ \A ds \in 0..10, df \in 0..10 :
                   RiskScoreAt(sugar + ds, fat + df) >= score

\* a diabetic call past every threshold: the largest score, labelled critical
C25_Witness ==
    /\ DiabeticRiskAssessed
    /\ OrZero(args.nutrition.rec.sugar) > 200
    /\ OrZero(args.nutrition.rec.fat) > 300
    /\ result.value.score = 90
    /\ result.value.risk = "critical"


----------------------------------------------------------------------------
(* Order of the diabetic warnings *)

\* the rules of generateDiabeticWarnings in the order they are evaluated
DiabeticRuleOrder ==
    << {"sugar_critical", "sugar_high", "sugar_moderate", "sugar_low", "sugar_safe"},
       {"carb_high"}, {"combination_danger"}, {"calorie_high"}, {"salt_high"},
       {"fiber_good"}, {"protein_good"}, {"ideal_diabetic"}, {"type1_specific"} >>

\* the place of the rule that makes entries of the given type
DiabeticRuleRank(type) ==
    CHOOSE k \in 1..Len(DiabeticRuleOrder) : type \in DiabeticRuleOrder[k]

\* a call of generateDiabeticWarnings has returned a list
DiabeticListReturned ==
    /\ fn = "generateDiabeticWarnings"
    /\ result.error # "pending"
    /\ ~result.threw

\* C26: in the list returned by generateDiabeticWarnings, entries of equal
\* priority keep the order in which their rules were evaluated: sugar band,
\* carbohydrate, fat+sugar combination, calories, salt, fiber, protein, ideal
\* food, type-1 entry.
C26_TiesKeepRuleOrder ==
    DiabeticListReturned =>
        \A i, j \in 1..Len(result.value) :
            (i < j /\ result.value[i].priority = result.value[j].priority) =>
                DiabeticRuleRank(result.value[i].type) < DiabeticRuleRank(result.value[j].type)

\* three High entries behind the Critical combination entry that was pushed
\* after two of them
C26_Witness ==
    /\ DiabeticListReturned
    /\ Len(result.value) >= 4
    /\ result.value[1].type = "combination_danger"
    /\ result.value[2].type = "sugar_high"
    /\ result.value[3].type = "carb_high"
    /\ result.value[4].type = "type1_specific"


----------------------------------------------------------------------------
(* The score as a function of each nutrient *)

\* the values each scored nutrient is given
ScoredValues ==
    [calories |-> CaloriesValues, sugar |-> SugarValues, fat |-> FatValues,
     salt |-> SaltValues, protein |-> ProteinValues, fiber |-> FiberValues]

\* the records that differ from rec in nutrient f only, f being no smaller
RaisedRecords(rec, f) ==
    {[rec EXCEPT ![f] = v] :
        v \in {w \in ScoredValues[f] : OrZero(w) >= OrZero(rec[f])}}

\* the score of the record under the options of the call
ScoreWith(rec) == calculateHealthScore(Object(rec), args.options).value.score

\* a call of calculateHealthScore with a nutrition object has returned
ObjectScored ==
    /\ fn = "calculateHealthScore"
    /\ result.error # "pending"
    /\ ~result.threw
    /\ args.nutrition.type = "object"

\* C27: with the other nutrients and the options held fixed, raising calories,
\* sugar, fat or salt never raises the score of calculateHealthScore, and
\* raising protein or fiber never lowers it.
C27_ScoreMonotone ==
    ObjectScored =>
        /\ \A f \in {"calories", "sugar", "fat", "salt"} :
               \A r \in RaisedRecords(args.nutrition.rec, f) :
                   ScoreWith(r) <= result.value.score
        /\ \A f \in {"protein", "fiber"} :
               \A r \in RaisedRecords(args.nutrition.rec, f) :
                   ScoreWith(r) >= result.value.score

\* a score strictly inside 0..100 that more sugar, more fat, more salt and more
\* calories each lower and more protein and more fiber each raise
C27_Witness ==
    /\ ObjectScored
    /\ result.value.score \in 1..99
    /\ \A f \in {"calories", "sugar", "fat", "salt"} :
           \E r \in RaisedRecords(args.nutrition.rec, f) :
               ScoreWith(r) < result.value.score
    /\ \A f \in {"protein", "fiber"} :
           \E r \in RaisedRecords(args.nutrition.rec, f) :
               ScoreWith(r) > result.value.score


----------------------------------------------------------------------------
(* Severities within one list of diabetic warnings *)

\* the list holds an entry of the given severity level
HoldsLevel(list, level) == \E i \in 1..Len(list) : list[i].level = level

\* C28: no list returned by generateDiabeticWarnings holds both an entry of
\* severity Critical and an entry of severity Safe, for any nutrition record
\* and either diabetic type.
C28_NoCriticalWithSafe ==
    DiabeticListReturned =>
        ~(HoldsLevel(result.value, "critical") /\ HoldsLevel(result.value, "safe"))

\* a list with a Critical entry and further entries, none of them Safe, for a
\* record rich in fiber and protein
C28_Witness ==
    /\ DiabeticListReturned
    /\ HoldsLevel(result.value, "critical")
    /\ Len(result.value) >= 3
    /\ OrZero(args.nutrition.rec.fiber) >= 80
    /\ OrZero(args.nutrition.rec.protein) >= 150


----------------------------------------------------------------------------
(* The scoring options *)

\* the result of the call had it been given other options
ResultWith(options) == calculateHealthScore(args.nutrition, options)

\* the two options agree on whether the user is diabetic
SameDiabetic(o1, o2) ==
    OrFalse(OptionsOf(o1).isDiabetic) = OrFalse(OptionsOf(o2).isDiabetic)

----------------------------------------------------------------------------
(* Properties of the scan history *)

\* the history is in the order of the additions, the latest first
LatestFirst ==
    /\ \A i, j \in 1..Len(state.scanHistory) :
           i < j => state.scanHistory[i].seq > state.scanHistory[j].seq
    /\ call.added > 0 => state.scanHistory[1].seq = call.added

\* a step that adds an entry to a full history leaves the entry in front of
\* all the others but the oldest, which was the last one
OldestDropped ==
    (fn = "app" /\ call'.added = call.added + 1
     /\ Len(state.scanHistory) = HistoryLimit) =>
        /\ Len(state'.scanHistory) = HistoryLimit
        /\ state'.scanHistory[1].seq = call'.added
        /\ SubSeq(state'.scanHistory, 2, HistoryLimit)
               = SubSeq(state.scanHistory, 1, HistoryLimit - 1)

\* C30: starting from a scan history of at most 50 entries, after any sequence
\* of scanProduct, saveProduct and addToHistory operations the history holds
\* at most 50 entries, the most recently added entry is first, and when a 51st
\* entry is added it is the oldest entry that is dropped.
C30_HistoryBoundedLatestFirst ==
    /\ [](fn = "app" => (Len(state.scanHistory) <= HistoryLimit /\ LatestFirst))
    /\ [][OldestDropped]_vars

\* a full history whose first entry was added by the run and whose oldest
\* entry of before is gone
C30_Witness ==
    /\ fn = "app"
    /\ Len(state.scanHistory) = HistoryLimit
    /\ state.scanHistory[1].seq = call.added
    /\ call.added >= 1
    /\ state.scanHistory[HistoryLimit].seq > 0 - HistoryLimit + 1

====
